---------------------------- MODULE Spec2Model ----------------------------
(***************************************************************************)
(* Model of the multi-line widget rendering engine of                      *)
(* claude-code-statusline-pro (src/src/core/multiline.rs).                 *)
(*                                                                         *)
(* Texts that the program inspects character by character (widget          *)
(* content, templates, environment values, rendered cells, output lines)   *)
(* are sequences of one-character strings, one element per Unicode scalar  *)
(* value, as Rust's str::chars() yields them.  Names that the program only *)
(* compares or concatenates (component names, widget names, cache keys)    *)
(* are TLA+ strings.                                                       *)
(***************************************************************************)
EXTENDS Integers, Sequences, FiniteSets, TLC

VARIABLES
    config,            \* MultiLineRenderer.config
    widget_cache,      \* MultiLineRenderer.widget_cache : key -> text
    grid,              \* MultiLineRenderer.grid.rows : row -> (col -> text)
    env,               \* the process environment : name -> value
    files,             \* component descriptor files found on disk
    pc,                \* position of the render call
    multiline_config,  \* render_extension_lines: local multiline_config
    terminal,          \* context.terminal of the running render call
    comp_idx,          \* render_extension_lines: position in component_order
    component_config,  \* the descriptor loaded for the current component
    todo,              \* widgets of the current component not yet iterated
    current,           \* the widget whose API request is outstanding
    result,            \* the MultiLineRenderResult returned last
    renders,           \* number of render calls started
    changes,           \* number of changes made around the engine
    cycle,             \* what this render call did so far (observation only)
    since_update,      \* what the last update_config dropped (observation only)
    ev,                \* what the last step did (observation only)
    generator,         \* StatuslineGenerator: the throttle of generate
    probe              \* the clock, and one call of a function with its result

vars == <<config, widget_cache, grid, env, files, pc, multiline_config,
          terminal, comp_idx, component_config, todo, current, result,
          renders, changes, cycle, since_update, ev, generator, probe>>

(***************************************************************************)
(* Character sequences                                                     *)
(***************************************************************************)

\* a local binding (let v = ...; body): the value is computed once
Bind(v, Body(_)) == CHOOSE r \in {Body(x) : x \in {v}} : TRUE

Min(a, b) == IF a <= b THEN a ELSE b

\* str::starts_with
StartsWith(s, p) == Len(s) >= Len(p) /\ SubSeq(s, 1, Len(p)) = p

\* the suffix of s from position i (1-based), empty past the end
From(s, i) == SubSeq(s, i, Len(s))

\* str::find(ch) as a 1-based position, 0 when ch does not occur
FirstIndexOf(s, ch) ==
    IF \A i \in 1..Len(s) : s[i] # ch THEN 0
    ELSE CHOOSE i \in 1..Len(s) : s[i] = ch /\ \A j \in 1..(i - 1) : s[j] # ch

\* str::contains
RECURSIVE Contains(_, _)
Contains(s, p) ==
    Bind(s, LAMBDA text :
        IF Len(text) < Len(p) THEN FALSE
        ELSE IF StartsWith(text, p) THEN TRUE
        ELSE Contains(Tail(text), p))

\* str::replace: every non-overlapping occurrence of pat, left to right
RECURSIVE Replace(_, _, _)
Replace(s, pat, rep) ==
    Bind(s, LAMBDA text :
        IF Len(text) < Len(pat) \/ Len(pat) = 0 THEN text
        ELSE IF StartsWith(text, pat)
        THEN rep \o Replace(From(text, Len(pat) + 1), pat, rep)
        ELSE <<Head(text)>> \o Replace(Tail(text), pat, rep))

\* str::trim_end_matches(ch)
RECURSIVE TrimEndMatches(_, _)
TrimEndMatches(s, ch) ==
    Bind(s, LAMBDA text :
        IF Len(text) > 0 /\ text[Len(text)] = ch
        THEN TrimEndMatches(SubSeq(text, 1, Len(text) - 1), ch)
        ELSE text)

\* [&str]::join(sep)
RECURSIVE JoinWith(_, _)
JoinWith(parts, sep) ==
    IF Len(parts) = 0 THEN <<>>
    ELSE IF Len(parts) = 1 THEN parts[1]
    ELSE parts[1] \o sep \o JoinWith(Tail(parts), sep)

\* the concatenation of a sequence of sequences
RECURSIVE Concat(_)
Concat(parts) == IF Len(parts) = 0 THEN <<>> ELSE Head(parts) \o Concat(Tail(parts))

Digits == <<"0", "1", "2", "3", "4", "5", "6", "7", "8", "9">>

\* u32::to_string / the decimal text of a natural number
RECURSIVE NatToString(_)
NatToString(n) ==
    IF n < 10 THEN <<Digits[n + 1]>>
    ELSE NatToString(n \div 10) \o <<Digits[(n % 10) + 1]>>

\* the elements of a finite set of integers in ascending order
RECURSIVE SortedSeq(_)
SortedSeq(S) ==
    IF S = {} THEN <<>>
    ELSE LET m == CHOOSE x \in S : \A y \in S : x <= y
         IN  <<m>> \o SortedSeq(S \ {m})

\* Option<T>
None == [some |-> FALSE]
Some(v) == [some |-> TRUE, v |-> v]

Range(f) == {f[x] : x \in DOMAIN f}

(***************************************************************************)
(* Numbers (f64).  A value is the exact rational (1000 * k + u) / d with k *)
(* an integer, u in 0..999 and d >= 1 in lowest terms; whole numbers have  *)
(* d = 1 and are handled limb by limb, so that millisecond timestamps fit. *)
(* Rounding of the binary representation is not modelled.                  *)
(***************************************************************************)

F(k, u, d) == [k |-> k, u |-> u, d |-> d]

Abs(n) == IF n < 0 THEN -n ELSE n

RECURSIVE Gcd(_, _)
Gcd(a, b) == IF b = 0 THEN a ELSE Gcd(b, a % b)

\* the value n / d of integers n and d > 0
Ratio(n, d) ==
    LET g == Gcd(Abs(n), d)
    IN  F((n \div g) \div 1000, (n \div g) % 1000, d \div g)

FromInt(n) == Ratio(n, 1)

\* the numerator
ToInt(x) == x.k * 1000 + x.u

IsZero(x) == x.k = 0 /\ x.u = 0

IsNegative(x) == x.k < 0

NumNeg(x) == IF x.u = 0 THEN F(-x.k, 0, x.d) ELSE F(-x.k - 1, 1000 - x.u, x.d)

NumAbs(x) == IF IsNegative(x) THEN NumNeg(x) ELSE x

NumAdd(a, b) ==
    IF a.d = 1 /\ b.d = 1
    THEN F(a.k + b.k + ((a.u + b.u) \div 1000), (a.u + b.u) % 1000, 1)
    ELSE Ratio(ToInt(a) * b.d + ToInt(b) * a.d, a.d * b.d)

NumSub(a, b) == NumAdd(a, NumNeg(b))

\* m * x for an integer m and a whole x
Scale(m, x) == F(m * x.k + ((m * x.u) \div 1000), (m * x.u) % 1000, 1)

NumMul(a, b) ==
    IF a.d = 1 /\ b.d = 1
    THEN IF a.k \in {-1, 0} THEN Scale(ToInt(a), b)
         ELSE IF b.k \in {-1, 0} THEN Scale(ToInt(b), a)
         ELSE FromInt(ToInt(a) * ToInt(b))
    ELSE Ratio(ToInt(a) * ToInt(b), a.d * b.d)

\* a / b for b # 0
NumDiv(a, b) ==
    LET n == ToInt(a) * b.d
        m == ToInt(b) * a.d
    IN  IF m < 0 THEN Ratio(-n, -m) ELSE Ratio(n, m)

\* f64::floor, f64::ceil, f64::trunc, f64::round (half away from zero)
NumFloor(x) == IF x.d = 1 THEN x ELSE FromInt(ToInt(x) \div x.d)

NumCeil(x) == NumNeg(NumFloor(NumNeg(x)))

\* a < b for whole numbers
WholeLess(a, b) == a.k < b.k \/ (a.k = b.k /\ a.u < b.u)

NumLess(a, b) ==
    IF b.d = 1 THEN WholeLess(NumFloor(a), b)
    ELSE IF a.d = 1 THEN WholeLess(a, NumCeil(b))
    ELSE ToInt(a) * b.d < ToInt(b) * a.d

NumTrunc(x) == IF IsNegative(x) THEN NumCeil(x) ELSE NumFloor(x)

NumRound(x) ==
    IF x.d = 1 THEN x
    ELSE LET a == NumAbs(x)
             r == FromInt((2 * ToInt(a) + a.d) \div (2 * a.d))
         IN  IF IsNegative(x) THEN NumNeg(r) ELSE r

\* floor(x / unit) for whole x >= 0 and a unit of whole seconds
DivFloor(x, unit) == FromInt(x.k \div unit.k)

\* ceil(x / unit) for whole x >= 0 and a unit of whole seconds
DivCeil(x, unit) ==
    FromInt((x.k \div unit.k) + (IF x.k % unit.k # 0 \/ x.u # 0 THEN 1 ELSE 0))

\* x % unit for whole x >= 0 and a unit of whole seconds
ModUnit(x, unit) == F(x.k % unit.k, x.u, 1)

RECURSIVE Pow10(_)
Pow10(j) == IF j = 0 THEN 1 ELSE 10 * Pow10(j - 1)

\* the decimal digits of n, at least width of them
RECURSIVE Padded(_, _)
Padded(n, width) ==
    IF width <= 1 THEN NatToString(n)
    ELSE Padded(n \div 10, width - 1) \o <<Digits[(n % 10) + 1]>>

\* the decimal text of a whole number (i64 Display)
WholeText(x) ==
    LET a == NumAbs(x)
        body == IF a.k = 0 THEN NatToString(a.u)
                ELSE NatToString(a.k) \o Padded(a.u, 3)
    IN  IF IsNegative(x) THEN <<"-">> \o body ELSE body

\* the shortest decimal text of a number that is not whole and has a
\* finite decimal expansion
DecimalText(x) ==
    LET a == NumAbs(x)
        j == CHOOSE i \in 1..6 : Pow10(i) % a.d = 0 /\ \A h \in 1..(i - 1) : Pow10(h) % a.d # 0
        m == (ToInt(a) * Pow10(j)) \div a.d
        body == NatToString(m \div Pow10(j)) \o <<".">> \o Padded(m % Pow10(j), j)
    IN  IF IsNegative(x) THEN <<"-">> \o body ELSE body

\* f64 Display ("{}")
F64Text(x) == IF x.d = 1 THEN WholeText(x) ELSE DecimalText(x)

\* serde_json's text of a float
FloatText(x) == IF x.d = 1 THEN WholeText(x) \o <<".", "0">> ELSE DecimalText(x)

\* f64 Display with a precision ("{:.N}"): ties to even on the exact value
FixedText(x, precision) ==
    LET a == NumAbs(x)
        n == ToInt(a) * Pow10(precision)
        q == n \div a.d
        twice == 2 * (n % a.d)
        m == IF twice > a.d \/ (twice = a.d /\ q % 2 = 1) THEN q + 1 ELSE q
        body == IF precision = 0 THEN NatToString(m)
                ELSE NatToString(m \div Pow10(precision)) \o <<".">> \o
                     Padded(m % Pow10(precision), precision)
    IN  IF IsNegative(x) THEN <<"-">> \o body ELSE body

\* the value of a text of decimal digits, as a whole number
RECURSIVE DigitsToNat(_)
DigitsToNat(s) ==
    IF Len(s) = 0 THEN 0
    ELSE 10 * DigitsToNat(SubSeq(s, 1, Len(s) - 1)) +
         (CHOOSE i \in 0..9 : Digits[i + 1] = s[Len(s)])

\* str::parse::<usize>: decimal digits after an optional plus sign
ParseUsize(text) ==
    IF Len(text) > 0 /\ Head(text) = "+" /\ Len(text) > 1
       /\ \A i \in 2..Len(text) : text[i] \in Range(Digits)
    THEN Some(DigitsToNat(Tail(text)))
    ELSE IF Len(text) > 0 /\ \A i \in 1..Len(text) : text[i] \in Range(Digits)
    THEN Some(DigitsToNat(text))
    ELSE None

WideOfDigits(s) ==
    IF Len(s) <= 3 THEN F(0, DigitsToNat(s), 1)
    ELSE F(DigitsToNat(SubSeq(s, 1, Len(s) - 3)), DigitsToNat(From(s, Len(s) - 2)), 1)

\* str::parse::<f64> for texts of the form [+-] digits [. digits]:
\* Option<f64>
ParseF64(s) ==
    LET signed == Len(s) > 0 /\ Head(s) \in {"+", "-"}
        body == IF signed THEN Tail(s) ELSE s
        dots == {i \in 1..Len(body) : body[i] = "."}
        dot == IF dots = {} THEN Len(body) + 1 ELSE CHOOSE i \in dots : \A h \in dots : i <= h
        whole == SubSeq(body, 1, dot - 1)
        frac == From(body, dot + 1)
        wellformed == /\ \A i \in 1..Len(body) : body[i] \in Range(Digits) \cup {"."}
                      /\ Cardinality(dots) <= 1
                      /\ Len(whole) + Len(frac) > 0
        magnitude == IF Len(frac) = 0 THEN WideOfDigits(whole)
                     ELSE NumAdd(WideOfDigits(whole), Ratio(DigitsToNat(frac), Pow10(Len(frac))))
    IN  IF ~wellformed THEN [some |-> FALSE]
        ELSE [some |-> TRUE,
              v |-> IF signed /\ Head(s) = "-" THEN NumNeg(magnitude) ELSE magnitude]

(***************************************************************************)
(* Environment substitution                                                *)
(***************************************************************************)

\* the characters of the class [A-Z0-9_] of ENV_PATTERN
EnvNameChars ==
    {"A", "B", "C", "D", "E", "F", "G", "H", "I", "J", "K", "L", "M",
     "N", "O", "P", "Q", "R", "S", "T", "U", "V", "W", "X", "Y", "Z",
     "0", "1", "2", "3", "4", "5", "6", "7", "8", "9", "_"}

\* U+0000
NUL == "<NUL>"

DOLLAR_PLACEHOLDER == <<NUL, "D", "O", "L", "L", "A", "R", NUL>>

\* the two-character text \$
EscapedDollar == <<"\\", "$">>

\* std::env::var(name).unwrap_or_default() under environment e
EnvValue(e, name) == IF name \in DOMAIN e THEN e[name] ELSE <<>>

\* length of the longest prefix of s made of [A-Z0-9_]
RECURSIVE NameRun(_)
NameRun(s) ==
    Bind(s, LAMBDA text :
        IF Len(text) > 0 /\ Head(text) \in EnvNameChars THEN 1 + NameRun(Tail(text)) ELSE 0)

\* Regex \$\{([A-Z0-9_]+)\} replace_all: leftmost matches, the replacement
\* text is not scanned again
RECURSIVE ReplaceEnvRefs(_, _)
ReplaceEnvRefs(s, e) ==
    Bind(s, LAMBDA text :
        IF Len(text) = 0 THEN <<>>
        ELSE Bind(NameRun(From(text, 3)), LAMBDA n :
             IF /\ StartsWith(text, <<"$", "{">>)
                /\ n >= 1
                /\ Len(text) >= n + 3
                /\ text[n + 3] = "}"
             THEN EnvValue(e, SubSeq(text, 3, n + 2)) \o ReplaceEnvRefs(From(text, n + 4), e)
             ELSE <<Head(text)>> \o ReplaceEnvRefs(Tail(text), e)))

\* a substitution that reads the escapes after the references
substitute_env_Unprotected(input, e) ==
    Replace(ReplaceEnvRefs(input, e), EscapedDollar, <<"$">>)

substitute_env(input, e) ==
    Bind(Replace(input, EscapedDollar, DOLLAR_PLACEHOLDER), LAMBDA step1 :
    Bind(ReplaceEnvRefs(step1, e), LAMBDA step2 :
        Replace(step2, DOLLAR_PLACEHOLDER, <<"$">>)))

(***************************************************************************)
(* Regular expressions.  The patterns of the model are literal texts, for  *)
(* which Regex::is_match is a substring search, and texts holding an       *)
(* unclosed group, which Regex::new rejects.                               *)
(***************************************************************************)

RegexCompiles(pattern) == "(" \notin Range(pattern)

RegexIsMatch(pattern, text) == Contains(text, pattern)

(***************************************************************************)
(* JSON values (serde_json::Value)                                         *)
(***************************************************************************)

JNull == [t |-> "null"]
JBool(b) == [t |-> "bool", b |-> b]
JNum(n) == [t |-> "num", n |-> n]
\* a Number holding an f64
JFloat(x) == [t |-> "float", x |-> x]
JStr(s) == [t |-> "str", s |-> s]
JObj(o) == [t |-> "obj", o |-> o]
\* Value::Array, the elements from index 0 on
JArr(a) == [t |-> "arr", a |-> a]

\* the order of characters used to sort object keys
Alphabet == <<"0", "1", "2", "3", "4", "5", "6", "7", "8", "9",
              "a", "b", "c", "d", "e", "f", "g", "h", "i", "j", "k", "l", "m",
              "n", "o", "p", "q", "r", "s", "t", "u", "v", "w", "x", "y", "z">>

CharRank(c) == CHOOSE i \in 1..Len(Alphabet) : Alphabet[i] = c

RECURSIVE LexLess(_, _)
LexLess(a, b) ==
    IF Len(b) = 0 THEN FALSE
    ELSE IF Len(a) = 0 THEN TRUE
    ELSE IF Head(a) = Head(b) THEN LexLess(Tail(a), Tail(b))
    ELSE CharRank(Head(a)) < CharRank(Head(b))

\* the keys of an object in map order
RECURSIVE SortedKeys(_)
SortedKeys(S) ==
    IF S = {} THEN <<>>
    ELSE LET m == CHOOSE x \in S : \A y \in S \ {x} : LexLess(x, y)
         IN  <<m>> \o SortedKeys(S \ {m})

BoolText(b) == IF b THEN <<"t", "r", "u", "e">> ELSE <<"f", "a", "l", "s", "e">>

\* Value::to_string(): compact JSON text
RECURSIVE JsonText(_)
JsonText(v) ==
    CASE v.t = "null" -> <<"n", "u", "l", "l">>
      [] v.t = "bool" -> BoolText(v.b)
      [] v.t = "num"  -> NatToString(v.n)
      [] v.t = "float" -> FloatText(v.x)
      [] v.t = "str"  -> <<"\"">> \o v.s \o <<"\"">>
      [] v.t = "obj"  ->
            LET keys == SortedKeys(DOMAIN v.o)
                member(i) == <<"\"">> \o keys[i] \o <<"\"", ":">> \o JsonText(v.o[keys[i]])
            IN  <<"{">> \o JoinWith([i \in 1..Len(keys) |-> member(i)], <<",">>) \o <<"}">>
      [] v.t = "arr"  ->
            <<"[">> \o JoinWith([i \in 1..Len(v.a) |-> JsonText(v.a[i])], <<",">>) \o <<"]">>

json_value_as_string(value) ==
    CASE value.t = "null" -> <<>>
      [] value.t = "str"  -> value.s
      [] value.t = "num"  -> NatToString(value.n)
      [] value.t = "float" -> FloatText(value.x)
      [] value.t = "bool" -> BoolText(value.b)
      [] OTHER            -> JsonText(value)

(***************************************************************************)
(* JSONPath selection (jsonpath_lib::select) for the paths of the model:   *)
(* "$" followed by ".field" and ".*" steps.  Any other text is a path      *)
(* error.                                                                  *)
(***************************************************************************)

FieldChars == Range(Alphabet) \cup {"_"}

RECURSIVE FieldRun(_)
FieldRun(s) ==
    IF Len(s) > 0 /\ Head(s) \in FieldChars THEN 1 + FieldRun(Tail(s)) ELSE 0

\* the field names of the steps after "$", or an error
RECURSIVE PathSteps(_)
PathSteps(s) ==
    IF Len(s) = 0 THEN [ok |-> TRUE, steps |-> <<>>]
    ELSE LET n == IF Len(s) >= 2 /\ s[2] = "*" THEN 1 ELSE FieldRun(Tail(s))
             rest == PathSteps(From(s, n + 2))
         IN  IF Head(s) = "." /\ n >= 1 /\ rest.ok
             THEN [ok |-> TRUE, steps |-> <<SubSeq(s, 2, n + 1)>> \o rest.steps]
             ELSE [ok |-> FALSE, steps |-> <<>>]

RECURSIVE Descend(_, _)
Descend(value, steps) ==
    IF Len(steps) = 0 THEN <<value>>
    ELSE IF Head(steps) = <<"*">>
         THEN IF value.t = "obj"
              THEN LET keys == SortedKeys(DOMAIN value.o)
                   IN  Concat([i \in 1..Len(keys) |-> Descend(value.o[keys[i]], Tail(steps))])
              ELSE IF value.t = "arr"
              THEN Concat([i \in 1..Len(value.a) |-> Descend(value.a[i], Tail(steps))])
              ELSE <<>>
    ELSE IF value.t = "obj" /\ Head(steps) \in DOMAIN value.o
         THEN Descend(value.o[Head(steps)], Tail(steps))
         ELSE <<>>

\* Result<Vec<&Value>>
jsonpath_select(json, path) ==
    IF Len(path) = 0 \/ Head(path) # "$" THEN [ok |-> FALSE, values |-> <<>>]
    ELSE LET p == PathSteps(Tail(path))
         IN  IF p.ok THEN [ok |-> TRUE, values |-> Descend(json, p.steps)]
             ELSE [ok |-> FALSE, values |-> <<>>]

(***************************************************************************)
(* Templates.  The clock is read once per call: now() has one value        *)
(* throughout the rendering of a template.                                 *)
(***************************************************************************)

\* str::split('.')
RECURSIVE SplitDots(_)
SplitDots(s) ==
    LET i == IF \E k \in 1..Len(s) : s[k] = "."
             THEN CHOOSE k \in 1..Len(s) : s[k] = "." /\ \A j \in 1..(k - 1) : s[j] # "."
             ELSE 0
    IN  IF i = 0 THEN <<s>>
        ELSE <<SubSeq(s, 1, i - 1)>> \o SplitDots(From(s, i + 1))

\* str::trim for the blank character of the model
RECURSIVE TrimStart(_)
TrimStart(s) == IF Len(s) > 0 /\ Head(s) = " " THEN TrimStart(Tail(s)) ELSE s

Trim(s) == TrimEndMatches(TrimStart(s), " ")

\* char::is_ascii_alphabetic
AsciiLetters ==
    (Range(Alphabet) \ Range(Digits)) \cup (EnvNameChars \ (Range(Digits) \cup {"_"}))

\* char::to_ascii_lowercase for the capital letters of the model
LowerChar(c) ==
    CASE c = "N" -> "n" [] c = "O" -> "o" [] c = "W" -> "w" [] OTHER -> c

\* str::eq_ignore_ascii_case against a lower-case text
EqIgnoreAsciiCase(s, lower) == [i \in 1..Len(s) |-> LowerChar(s[i])] = lower

NowCall == <<"n", "o", "w", "(", ")">>

\* Utc::now().timestamp_millis() as f64
now_timestamp_millis == probe.now

\* IDENT_REGEX ^[a-zA-Z_][a-zA-Z0-9_.]*$
IsBareIdent(s) ==
    /\ Len(s) > 0
    /\ Head(s) \in AsciiLetters \cup {"_"}
    /\ \A k \in 1..Len(s) : s[k] \in AsciiLetters \cup Range(Digits) \cup {"_", "."}

\* Option<(name, index)>
parse_array_segment(segment) ==
    Bind(FirstIndexOf(segment, "["), LAMBDA open :
    Bind(FirstIndexOf(segment, "]"), LAMBDA close :
        IF open = 0 \/ close = 0 \/ close <= open THEN None
        ELSE Some([name |-> SubSeq(segment, 1, open - 1),
                   index |-> SubSeq(segment, open + 1, close - 1)])))

\* the texts of the model, beside the numerals, that are JSON documents
KnownJson ==
    <<"t", "r", "u", "e">> :> JBool(TRUE) @@ <<"f", "a", "l", "s", "e">> :> JBool(FALSE)
    @@ <<"n", "u", "l", "l">> :> JNull
    @@ <<"{", "\"", "c", "\"", ":", "3", "}">> :> JObj(<<"c">> :> JNum(3))
    @@ <<"[", "7", ",", "8", "]">> :> JArr(<<JNum(7), JNum(8)>>)
    @@ <<"[", "5", "]">> :> JArr(<<JNum(5)>>)
    @@ <<"{", "\"", "e", "\"", ":", "\"", "[", "5", "]", "\"", "}">> :>
          JObj(<<"e">> :> JStr(<<"[", "5", "]">>))

\* a parser that takes no text for a JSON document
from_str_Never(s) == None

\* serde_json::from_str::<Value>(s).ok()
from_str(s) ==
    Bind(Trim(s), LAMBDA text :
        IF /\ Len(text) > 0
           /\ \A i \in 1..Len(text) : text[i] \in Range(Digits)
           /\ (Len(text) = 1 \/ Head(text) # "0")
        THEN Some(JNum(DigitsToNat(text)))
        ELSE IF text \in DOMAIN KnownJson THEN Some(KnownJson[text])
        ELSE None)

\* Err(anyhow!(..)) of extract_value
PathError == [ok |-> FALSE, value |-> JNull]

\* arr.get(idx) of a value that has to be an array, then the rest of the loop
RECURSIVE WalkSegments(_, _)
IndexInto(base, idx, segments) ==
    IF base.t = "arr" /\ idx < Len(base.a)
    THEN WalkSegments(segments, base.a[idx + 1])
    ELSE PathError

\* the loop of extract_value: Result<Value>
WalkSegments(segments, start) ==
    IF Len(segments) = 0 THEN [ok |-> TRUE, value |-> start]
    ELSE Bind(Trim(Head(segments)), LAMBDA segment :
        IF Len(segment) = 0 \/ segment = <<"$">>
        THEN WalkSegments(Tail(segments), start)
        ELSE Bind(IF start.t = "str" /\ from_str(start.s).some
                  THEN from_str(start.s).v ELSE start, LAMBDA cur :
             Bind(parse_array_segment(segment), LAMBDA indexed :
                 IF indexed.some
                 THEN IF cur.t # "obj" \/ indexed.v.name \notin DOMAIN cur.o
                      THEN PathError
                      ELSE Bind(ParseUsize(indexed.v.index), LAMBDA idx :
                               IF ~idx.some THEN PathError
                               ELSE IndexInto(cur.o[indexed.v.name], idx.v, Tail(segments)))
                 ELSE Bind(ParseUsize(segment), LAMBDA idx :
                          IF idx.some THEN IndexInto(cur, idx.v, Tail(segments))
                          ELSE IF cur.t = "obj" /\ segment \in DOMAIN cur.o
                               THEN WalkSegments(Tail(segments), cur.o[segment])
                               ELSE PathError))))

extract_value(path, data) ==
    IF Len(path) = 0 THEN [ok |-> TRUE, value |-> data]
    ELSE IF path = NowCall THEN [ok |-> TRUE, value |-> JFloat(now_timestamp_millis)]
    ELSE WalkSegments(SplitDots(path), data)

\* Result values
Ok(v) == [ok |-> TRUE, value |-> v]
Err(msg) == [ok |-> FALSE, err |-> msg]

SECOND_MS == FromInt(1000)
MINUTE_MS == NumMul(FromInt(60), SECOND_MS)
HOUR_MS == NumMul(FromInt(60), MINUTE_MS)
DAY_MS == NumMul(FromInt(24), HOUR_MS)
MONTH_MS == NumMul(FromInt(30), DAY_MS)
YEAR_MS == NumMul(FromInt(365), DAY_MS)

\* 1.0e12
MillisThreshold == F(1000000000, 0, 1)

parse_numeric_timestamp_AlwaysMillis(num) == Some(NumTrunc(NumRound(num)))

\* Option<DateTime<Utc>> as milliseconds since the epoch.  Every number the
\* model can hold lies within the range of DateTime.
parse_numeric_timestamp(num) ==
    Some(NumTrunc(NumRound(IF ~NumLess(num, MillisThreshold) THEN num
                           ELSE NumMul(num, FromInt(1000)))))

\* the date texts of the model and their instants
KnownDates ==
    <<"1", "9", "7", "0", "-", "0", "1", "-", "0", "1", "T",
      "0", "0", ":", "0", "0", ":", "0", "7", "Z">> :> FromInt(7000)

\* parse_datetime_string, DateTime::parse_from_rfc3339 and parse_from_rfc2822
parse_datetime_string(text) ==
    IF text \in DOMAIN KnownDates THEN Some(KnownDates[text]) ELSE None

parse_date_string(input) ==
    Bind(Trim(input), LAMBDA trimmed :
        IF Len(trimmed) = 0 THEN None
        ELSE Bind(ParseF64(trimmed), LAMBDA num :
                 IF num.some THEN parse_numeric_timestamp(num.v)
                 ELSE parse_datetime_string(trimmed)))

parse_date_value(value) ==
    CASE value.t = "num"   -> parse_numeric_timestamp(FromInt(value.n))
      [] value.t = "float" -> parse_numeric_timestamp(value.x)
      [] value.t = "str"   -> parse_date_string(value.s)
      [] OTHER             -> None

\* (end - start).num_milliseconds() as f64
calculate_time_difference(start, end) == NumSub(end, start)

\* Result<f64>
value_to_f64(value) ==
    CASE value.t = "num"   -> Ok(FromInt(value.n))
      [] value.t = "float" -> Ok(value.x)
      [] value.t = "str"   ->
            Bind(Trim(value.s), LAMBDA trimmed :
            Bind(ParseF64(trimmed), LAMBDA parsed :
                IF parsed.some THEN Ok(parsed.v)
                ELSE Bind(parse_date_string(trimmed), LAMBDA dt :
                         IF dt.some THEN Ok(dt.v) ELSE Err("Invalid numeric string"))))
      [] value.t = "bool"  -> Ok(IF value.b THEN FromInt(1) ELSE FromInt(0))
      [] value.t = "null"  -> Ok(FromInt(0))
      [] OTHER             -> Err("Unsupported value type for numeric conversion")

value_token_to_f64_Strict(token, data) ==
    Bind(ParseF64(token), LAMBDA num :
        IF num.some THEN num.v
        ELSE IF EqIgnoreAsciiCase(token, NowCall) THEN now_timestamp_millis
        ELSE Bind(extract_value(token, data), LAMBDA r :
                 IF ~r.ok THEN FromInt(1)
                 ELSE Bind(value_to_f64(r.value), LAMBDA n :
                          IF n.ok THEN n.value ELSE FromInt(1))))

\* the texts "inf", "infinity" and "nan", which parse as f64, are not
\* tokens of the model
value_token_to_f64(token, data) ==
    Bind(ParseF64(token), LAMBDA num :
        IF num.some THEN num.v
        ELSE IF EqIgnoreAsciiCase(token, NowCall) THEN now_timestamp_millis
        ELSE Bind(extract_value(token, data), LAMBDA r :
                 IF ~r.ok THEN FromInt(0)
                 ELSE Bind(value_to_f64(r.value), LAMBDA n :
                          IF n.ok THEN n.value ELSE FromInt(0))))

is_identifier_start(ch) == ch \in AsciiLetters \cup {"_"}

is_identifier_part(ch) == ch \in AsciiLetters \cup Range(Digits) \cup {"_", "[", "]"}

(***************************************************************************)
(* MathParser.  A parsing function takes the characters and the position   *)
(* of the next one (from 1) and yields the value and the position reached, *)
(* or the error.                                                           *)
(***************************************************************************)

At(v, pos) == [ok |-> TRUE, value |-> v, pos |-> pos]

peek_char(chars, pos) == IF pos <= Len(chars) THEN Some(chars[pos]) ELSE None

RECURSIVE skip_whitespace(_, _)
skip_whitespace(chars, pos) ==
    IF pos <= Len(chars) /\ chars[pos] = " " THEN skip_whitespace(chars, pos + 1) ELSE pos

\* the end of the run of characters of class from pos on
RECURSIVE RunEnd(_, _, _)
RunEnd(chars, pos, class) ==
    IF pos <= Len(chars) /\ chars[pos] \in class THEN RunEnd(chars, pos + 1, class) ELSE pos

parse_number(chars, pos) ==
    Bind(RunEnd(chars, pos, Range(Digits) \cup {"."}), LAMBDA end :
    Bind(ParseF64(SubSeq(chars, pos, end - 1)), LAMBDA n :
        IF n.some THEN At(n.v, end) ELSE Err("Invalid number in expression")))

parse_identifier(chars, pos, data) ==
    Bind(RunEnd(chars, pos, AsciiLetters \cup Range(Digits) \cup {"_", "[", "]", "."}),
         LAMBDA end :
    Bind(SubSeq(chars, pos, end - 1), LAMBDA ident :
        IF EqIgnoreAsciiCase(ident, <<"n", "o", "w">>) /\ peek_char(chars, end) = Some("(")
        THEN IF peek_char(chars, end + 1) = Some(")")
             THEN At(now_timestamp_millis, end + 2)
             ELSE Err("Invalid now() invocation")
        ELSE IF peek_char(chars, end) = Some("(")
             THEN Err("Unsupported function in expression")
             ELSE At(value_token_to_f64(Trim(ident), data), end)))

RECURSIVE parse_expression(_, _, _)
RECURSIVE ExpressionLoop(_, _, _, _)
RECURSIVE parse_term(_, _, _)
RECURSIVE TermLoop(_, _, _, _)
RECURSIVE parse_factor(_, _, _)
RECURSIVE parse_primary(_, _, _)

parse_primary(chars, pos0, data) ==
    Bind(skip_whitespace(chars, pos0), LAMBDA pos :
    Bind(peek_char(chars, pos), LAMBDA ch :
        IF ch = Some("(")
        THEN Bind(parse_expression(chars, pos + 1, data), LAMBDA r :
                 IF ~r.ok THEN r
                 ELSE IF peek_char(chars, r.pos) # Some(")")
                      THEN Err("Unmatched parenthesis in expression")
                      ELSE At(r.value, r.pos + 1))
        ELSE IF ch.some /\ ch.v \in Range(Digits) \cup {"."} THEN parse_number(chars, pos)
        ELSE IF ch.some /\ is_identifier_start(ch.v) THEN parse_identifier(chars, pos, data)
        ELSE Err("Unexpected token in expression")))

parse_factor_SingleSign(chars, pos0, data) ==
    Bind(skip_whitespace(chars, pos0), LAMBDA pos :
    Bind(peek_char(chars, pos), LAMBDA ch :
    Bind(parse_primary(chars, IF ch \in {Some("+"), Some("-")} THEN pos + 1 ELSE pos, data),
         LAMBDA r :
        IF ch = Some("-") /\ r.ok THEN At(NumNeg(r.value), r.pos) ELSE r)))

parse_factor(chars, pos0, data) ==
    Bind(skip_whitespace(chars, pos0), LAMBDA pos :
    Bind(peek_char(chars, pos), LAMBDA ch :
        IF ch = Some("+") THEN parse_factor(chars, pos + 1, data)
        ELSE IF ch = Some("-")
             THEN Bind(parse_factor(chars, pos + 1, data), LAMBDA r :
                      IF r.ok THEN At(NumNeg(r.value), r.pos) ELSE r)
             ELSE parse_primary(chars, pos, data)))

\* the loop of parse_term, with the value so far
TermLoop(chars, pos0, value, data) ==
    Bind(skip_whitespace(chars, pos0), LAMBDA pos :
    Bind(peek_char(chars, pos), LAMBDA ch :
        IF ch \notin {Some("*"), Some("/")} THEN At(value, pos)
        ELSE Bind(parse_factor(chars, pos + 1, data), LAMBDA rhs :
                 IF ~rhs.ok THEN rhs
                 ELSE IF ch = Some("*")
                      THEN TermLoop(chars, rhs.pos, NumMul(value, rhs.value), data)
                 ELSE IF IsZero(rhs.value) THEN Err("Division by zero")
                 ELSE TermLoop(chars, rhs.pos, NumDiv(value, rhs.value), data))))

parse_term(chars, pos, data) ==
    Bind(parse_factor(chars, pos, data), LAMBDA r :
        IF r.ok THEN TermLoop(chars, r.pos, r.value, data) ELSE r)

\* the loop of parse_expression, with the value so far
ExpressionLoop(chars, pos0, value, data) ==
    Bind(skip_whitespace(chars, pos0), LAMBDA pos :
    Bind(peek_char(chars, pos), LAMBDA ch :
        IF ch \notin {Some("+"), Some("-")} THEN At(value, pos)
        ELSE Bind(parse_term(chars, pos + 1, data), LAMBDA rhs :
                 IF ~rhs.ok THEN rhs
                 ELSE ExpressionLoop(chars, rhs.pos,
                                     IF ch = Some("+") THEN NumAdd(value, rhs.value)
                                     ELSE NumSub(value, rhs.value),
                                     data))))

parse_expression(chars, pos, data) ==
    Bind(parse_term(chars, pos, data), LAMBDA r :
        IF r.ok THEN ExpressionLoop(chars, r.pos, r.value, data) ELSE r)

expect_end(chars, pos) == \A i \in pos..Len(chars) : chars[i] = " "

\* Result<f64>
evaluate_math_expression(expr, data) ==
    Bind(parse_expression(expr, 1, data), LAMBDA r :
        IF ~r.ok THEN r
        ELSE IF ~expect_end(expr, r.pos)
             THEN Err("Unexpected trailing characters in expression")
             ELSE Ok(r.value))

\* MATH_CHARS_REGEX [+\-*/()] and not IDENT_REGEX
is_math_expression(expr) ==
    Bind(Trim(expr), LAMBDA trimmed :
        /\ \E i \in 1..Len(trimmed) : trimmed[i] \in {"+", "-", "*", "/", "(", ")"}
        /\ ~IsBareIdent(trimmed))

\* TIME_DIFF_PATTERN ^(.+?)\s*-\s*(.+?)$: the two captures, trimmed
TimeDiffCaptures(s) ==
    IF \A i \in 2..(Len(s) - 1) : s[i] # "-" THEN None
    ELSE Bind(1 + FirstIndexOf(Tail(s), "-"), LAMBDA i :
             Some([left |-> Trim(SubSeq(s, 1, i - 1)), right |-> Trim(From(s, i + 1))]))

\* Option<DateTime<Utc>>
resolve_time_operand(expr, data) ==
    IF EqIgnoreAsciiCase(expr, NowCall) THEN Some(now_timestamp_millis)
    ELSE Bind(extract_value(expr, data), LAMBDA r :
             IF r.ok THEN parse_date_value(r.value) ELSE None)

\* the difference of evaluate_expression, when both sides are instants
TimeDifference(trimmed, data) ==
    Bind(TimeDiffCaptures(trimmed), LAMBDA caps :
        IF ~caps.some THEN None
        ELSE Bind(resolve_time_operand(caps.v.left, data), LAMBDA left_dt :
             Bind(resolve_time_operand(caps.v.right, data), LAMBDA right_dt :
                 IF left_dt.some /\ right_dt.some
                 THEN Some(calculate_time_difference(right_dt.v, left_dt.v))
                 ELSE None)))

\* Result<Value>
evaluate_expression(expr, data) ==
    Bind(Trim(expr), LAMBDA trimmed :
        IF EqIgnoreAsciiCase(trimmed, NowCall) THEN Ok(JFloat(now_timestamp_millis))
        ELSE Bind(TimeDifference(trimmed, data), LAMBDA difference :
            IF difference.some THEN Ok(JFloat(difference.v))
            ELSE IF is_math_expression(trimmed)
            THEN Bind(evaluate_math_expression(trimmed, data), LAMBDA number :
                     IF number.ok THEN Ok(JFloat(number.value)) ELSE number)
            ELSE extract_value(trimmed, data)))

(***************************************************************************)
(* Formatting.  The CJK labels are written as their code points, one       *)
(* element per character.                                                  *)
(***************************************************************************)

LabelYear == <<"U+5E74">>
LabelMonth == <<"U+6708">>
LabelDay == <<"U+5929">>
LabelHour == <<"U+5C0F", "U+65F6">>
LabelMinute == <<"U+5206", "U+949F">>
LabelSecond == <<"U+79D2">>

TimeFormats ==
    { <<"Y">>, <<"y", "e", "a", "r", "s">>,
      <<"M">>, <<"m", "o", "n", "t", "h", "s">>,
      <<"D">>, <<"d", "a", "y", "s">>,
      <<"H">>, <<"h", "o", "u", "r", "s">>,
      <<"m">>, <<"m", "i", "n", "u", "t", "e", "s">>,
      <<"S">>, <<"s", "e", "c", "o", "n", "d", "s">>,
      <<"Y", "M", "D">>, <<"D", "H", "m">>, <<"H", "m", "S">>, <<"m", "S">>,
      <<"H", "m">>, <<"d", "h", "m">>, <<"h", "m">> }

is_time_format(format) == format \in TimeFormats

\* format_number for a whole value
format_number(value) == WholeText(value)

\* f64_to_i64 followed by the i64 Display
I64Text(value) == WholeText(NumTrunc(value))

\* The numbers of the model are finite.  The floors of the fractional
\* quotients and remainders are taken on the whole part of abs_ms, which
\* gives the same fields.
format_time_difference(diff_ms, format) ==
    LET negative == IsNegative(diff_ms)
        abs_ms == NumAbs(diff_ms)
        whole == NumFloor(abs_ms)
        up == NumCeil(abs_ms)
        signed(x) == IF negative THEN NumNeg(x) ELSE x
        years == DivFloor(whole, YEAR_MS)
        months == DivFloor(whole, MONTH_MS)
        days == DivFloor(whole, DAY_MS)
        hours == DivFloor(whole, HOUR_MS)
        minutes == DivFloor(whole, MINUTE_MS)
        remaining_after_days == ModUnit(whole, DAY_MS)
        hours_in_day == DivFloor(remaining_after_days, HOUR_MS)
        remaining_after_hours == ModUnit(remaining_after_days, HOUR_MS)
        minutes_in_hour == DivFloor(remaining_after_hours, MINUTE_MS)
        remaining_after_minutes == ModUnit(remaining_after_hours, MINUTE_MS)
        seconds_in_minute == DivFloor(remaining_after_minutes, SECOND_MS)
        prefix == IF negative THEN <<"-">> ELSE <<>>
    IN  CASE format \in {<<"Y">>, <<"y", "e", "a", "r", "s">>} ->
                format_number(signed(years))
          [] format \in {<<"M">>, <<"m", "o", "n", "t", "h", "s">>} ->
                format_number(signed(months))
          [] format \in {<<"D">>, <<"d", "a", "y", "s">>} ->
                format_number(signed(DivCeil(up, DAY_MS)))
          [] format \in {<<"H">>, <<"h", "o", "u", "r", "s">>} ->
                format_number(signed(DivCeil(up, HOUR_MS)))
          [] format \in {<<"m">>, <<"m", "i", "n", "u", "t", "e", "s">>} ->
                format_number(signed(DivCeil(up, MINUTE_MS)))
          [] format \in {<<"S">>, <<"s", "e", "c", "o", "n", "d", "s">>} ->
                format_number(signed(DivCeil(up, SECOND_MS)))
          [] format = <<"Y", "M", "D">> ->
                LET months_in_year == FromInt(ToInt(months) % 12)
                    after == NumSub(days, NumMul(FromInt(30), months))
                    days_after_months == IF IsNegative(after) THEN FromInt(0) ELSE after
                IN  prefix \o I64Text(years) \o LabelYear
                           \o I64Text(months_in_year) \o LabelMonth
                           \o I64Text(days_after_months) \o LabelDay
          [] format \in {<<"D", "H", "m">>, <<"d", "h", "m">>} ->
                prefix \o I64Text(days) \o LabelDay
                       \o I64Text(hours_in_day) \o LabelHour
                       \o I64Text(minutes_in_hour) \o LabelMinute
          [] format = <<"H", "m", "S">> ->
                prefix \o I64Text(hours) \o LabelHour
                       \o I64Text(minutes_in_hour) \o LabelMinute
                       \o I64Text(seconds_in_minute) \o LabelSecond
          [] format = <<"m", "S">> ->
                prefix \o I64Text(minutes) \o LabelMinute
                       \o I64Text(seconds_in_minute) \o LabelSecond
          [] format \in {<<"H", "m">>, <<"h", "m">>} ->
                prefix \o I64Text(hours) \o LabelHour
                       \o I64Text(minutes_in_hour) \o LabelMinute
          [] OTHER ->
                format_number(signed(DivCeil(up, DAY_MS)))

\* str::parse::<usize> of the precision between '.' and 'f'
ParsePrecision(text) ==
    LET body == IF Len(text) > 0 /\ Head(text) = "+" THEN Tail(text) ELSE text
    IN  IF Len(body) > 0 /\ \A i \in 1..Len(body) : body[i] \in Range(Digits)
        THEN Some(DigitsToNat(body)) ELSE None

\* starts_with('.') && ends_with('f'), and the text between the two
IsPrecisionSpec(spec) == Len(spec) >= 2 /\ Head(spec) = "." /\ spec[Len(spec)] = "f"

PrecisionBody(spec) == SubSeq(spec, 2, Len(spec) - 1)

\* the final match of format_value_with_spec
DefaultText(value) ==
    CASE value.t = "null" -> Ok(<<>>)
      [] value.t = "str"  -> Ok(value.s)
      [] value.t \in {"num", "float", "bool"} -> Ok(F64Text(value_to_f64(value).value))
      [] OTHER -> Ok(JsonText(value))

\* Result<String>
format_value_with_spec(value, spec) ==
    LET number == value_to_f64(value)
    IN  IF is_time_format(spec)
        THEN IF number.ok THEN Ok(format_time_difference(number.value, spec)) ELSE number
        ELSE IF spec = <<"%">>
        THEN IF number.ok THEN Ok(F64Text(number.value) \o <<"%">>) ELSE number
        ELSE IF spec = <<"d">>
        THEN IF number.ok THEN Ok(I64Text(number.value)) ELSE number
        ELSE IF IsPrecisionSpec(spec)
        THEN LET precision == ParsePrecision(PrecisionBody(spec))
             IN  IF ~precision.some THEN Err("Invalid precision")
                 ELSE IF number.ok THEN Ok(FixedText(number.value, precision.v))
                 ELSE number
        ELSE IF Len(spec) > 0 /\ spec[Len(spec)] = "%"
        THEN LET body == SubSeq(spec, 1, Len(spec) - 1)
                 numeric == NumMul(number.value, FromInt(100))
                 precision == ParsePrecision(PrecisionBody(body))
             IN  IF ~number.ok THEN number
                 ELSE IF Len(body) = 0 THEN Ok(F64Text(numeric) \o <<"%">>)
                 ELSE IF IsPrecisionSpec(body)
                      THEN IF precision.some
                           THEN Ok(FixedText(numeric, precision.v) \o <<"%">>)
                           ELSE Err("Invalid precision")
                      ELSE Err("Unsupported format specifier")
        ELSE DefaultText(value)

\* Result<String>
render_placeholder(expr, data) ==
    Bind(FirstIndexOf(expr, ":"), LAMBDA idx :
    Bind(evaluate_expression(
             Trim(IF idx = 0 THEN expr ELSE SubSeq(expr, 1, idx - 1)), data),
         LAMBDA value :
        IF ~value.ok THEN value
        ELSE IF idx = 0 THEN Ok(json_value_as_string(value.value))
        ELSE format_value_with_spec(value.value, Trim(From(expr, idx + 1)))))

\* PLACEHOLDER_PATTERN \{([^{}]+)\}: the first match in s as <<start, end>>
\* (positions of the braces), <<0, 0>> when there is none
FirstPlaceholder(s) ==
    LET opens == {i \in 1..Len(s) :
                    /\ s[i] = "{"
                    /\ \E j \in (i + 2)..Len(s) :
                          /\ s[j] = "}"
                          /\ \A k \in (i + 1)..(j - 1) : s[k] \notin {"{", "}"}}
    IN  IF opens = {} THEN <<0, 0>>
        ELSE LET i == CHOOSE x \in opens : \A y \in opens : x <= y
                 j == CHOOSE x \in (i + 2)..Len(s) :
                          s[x] = "}" /\ \A k \in (i + 1)..(x - 1) : s[k] # "}"
             IN  <<i, j>>

RECURSIVE render_template_DropFailed(_, _)
render_template_DropFailed(template, data) ==
    Bind(FirstPlaceholder(template), LAMBDA m :
        IF m[1] = 0 THEN template
        ELSE Bind(SubSeq(template, m[1] + 1, m[2] - 1), LAMBDA expr :
             Bind(render_placeholder(expr, data), LAMBDA r :
                 SubSeq(template, 1, m[1] - 1)
                 \o (IF r.ok THEN r.value ELSE <<>>)
                 \o render_template_DropFailed(From(template, m[2] + 1), data))))

RECURSIVE render_template(_, _)
render_template(template, data) ==
    Bind(FirstPlaceholder(template), LAMBDA m :
        IF m[1] = 0 THEN template
        ELSE Bind(SubSeq(template, m[1] + 1, m[2] - 1), LAMBDA expr :
             Bind(render_placeholder(expr, data), LAMBDA r :
                 SubSeq(template, 1, m[1] - 1)
                 \o (IF r.ok THEN r.value ELSE <<"{">> \o expr \o <<"}">>)
                 \o render_template(From(template, m[2] + 1), data))))

(***************************************************************************)
(* Widgets                                                                 *)
(***************************************************************************)

should_render_widget(widget) ==
    IF widget.force.some THEN widget.force.v ELSE widget.enabled

\* a detection that lets a rule pass when its variable is not set
check_detection_AbsentPasses(widget, e) ==
    IF ~widget.detection.some THEN TRUE
    ELSE LET detection == widget.detection.v
         IN  IF ~detection.env.some \/ detection.env.v \notin DOMAIN e THEN TRUE
             ELSE LET value == e[detection.env.v]
                  IN  /\ detection.equals.some => value = detection.equals.v
                      /\ detection.contains.some => Contains(value, detection.contains.v)
                      /\ detection.pattern.some =>
                            /\ RegexCompiles(detection.pattern.v)
                            /\ RegexIsMatch(detection.pattern.v, value)

check_detection(widget, e) ==
    IF ~widget.detection.some THEN TRUE
    ELSE LET detection == widget.detection.v
         IN  IF ~detection.env.some THEN TRUE
             ELSE IF detection.env.v \notin DOMAIN e THEN FALSE
             ELSE LET value == e[detection.env.v]
                  IN  /\ detection.equals.some => value = detection.equals.v
                      /\ detection.contains.some => Contains(value, detection.contains.v)
                      /\ detection.pattern.some =>
                            /\ RegexCompiles(detection.pattern.v)
                            /\ RegexIsMatch(detection.pattern.v, value)

\* AutoDetect::is_enabled
is_enabled(auto, detected) == IF auto = "auto" THEN detected ELSE auto = "true"

\* an icon choice that looks at the capabilities before the force flags
select_widget_icon_DetectedFirst(widget, term, cfg) ==
    IF cfg.terminal.force_text THEN widget.text_icon
    ELSE IF term.supports_nerd_font /\ is_enabled(cfg.style.enable_nerd_font, TRUE)
         THEN widget.nerd_icon
    ELSE IF term.supports_emoji /\ is_enabled(cfg.style.enable_emoji, TRUE)
         THEN widget.emoji_icon
    ELSE IF cfg.terminal.force_nerd_font THEN widget.nerd_icon
    ELSE IF cfg.terminal.force_emoji THEN widget.emoji_icon
    ELSE widget.text_icon

select_widget_icon(widget, term, cfg) ==
    IF cfg.terminal.force_text THEN widget.text_icon
    ELSE IF cfg.terminal.force_nerd_font THEN widget.nerd_icon
    ELSE IF cfg.terminal.force_emoji THEN widget.emoji_icon
    ELSE IF term.supports_nerd_font /\ is_enabled(cfg.style.enable_nerd_font, TRUE)
         THEN widget.nerd_icon
    ELSE IF term.supports_emoji /\ is_enabled(cfg.style.enable_emoji, TRUE)
         THEN widget.emoji_icon
    ELSE widget.text_icon

compose_with_icon(widget, content, term, cfg) ==
    LET icon == select_widget_icon(widget, term, cfg)
    IN  IF Len(icon) = 0 THEN content ELSE icon \o <<" ">> \o content

render_static_widget(widget, term, cfg, e) ==
    LET raw_widget_content == IF widget.content.some THEN widget.content.v ELSE <<>>
    IN  compose_with_icon(widget, substitute_env(raw_widget_content, e), term, cfg)

HttpPrefix == <<"h", "t", "t", "p", ":", "/", "/">>
HttpsPrefix == <<"h", "t", "t", "p", "s", ":", "/", "/">>

\* fetch_api_data up to the request: the URL to call, or an error
resolve_url(api_config, e) ==
    IF ~api_config.endpoint.some THEN [ok |-> FALSE, url |-> <<>>]
    ELSE Bind(substitute_env(api_config.endpoint.v, e), LAMBDA endpoint :
         IF StartsWith(endpoint, HttpPrefix) \/ StartsWith(endpoint, HttpsPrefix)
         THEN [ok |-> TRUE, url |-> endpoint]
         ELSE IF api_config.base_url.some
         THEN [ok |-> TRUE,
               url |-> TrimEndMatches(substitute_env(api_config.base_url.v, e), "/")
                       \o endpoint]
         ELSE [ok |-> FALSE, url |-> <<>>])

\* fetch_api_data after the request: response is None for a failed request
\* (connection, status, timeout, body that is not JSON), else Some(json)
select_api_data(api_config, response) ==
    IF ~response.some THEN [ok |-> FALSE, root |-> JNull, selected |-> JNull]
    ELSE LET json == response.v
         IN  IF api_config.data_path.some
             THEN LET matches == jsonpath_select(json, api_config.data_path.v)
                  IN  IF matches.ok /\ Len(matches.values) > 0
                      THEN [ok |-> TRUE, root |-> json, selected |-> matches.values[1]]
                      ELSE [ok |-> FALSE, root |-> JNull, selected |-> JNull]
             ELSE [ok |-> TRUE, root |-> json, selected |-> json]

value_matches_filter_EmptyPasses(filter, data) ==
    IF ~filter.keyword.some THEN TRUE
    ELSE LET keyword == filter.keyword.v
             matches == jsonpath_select(data, filter.object)
             texts == {json_value_as_string(matches.values[i]) : i \in 1..Len(matches.values)}
         IN  IF ~matches.ok THEN FALSE
             ELSE IF Len(matches.values) = 0 THEN TRUE
             ELSE CASE filter.mode = "equals"   -> \E x \in texts : x = keyword
                    [] filter.mode = "contains" -> \E x \in texts : Contains(x, keyword)
                    [] filter.mode = "pattern"  ->
                          /\ RegexCompiles(keyword)
                          /\ \E x \in texts : RegexIsMatch(keyword, x)

value_matches_filter(filter, data) ==
    IF ~filter.keyword.some THEN TRUE
    ELSE LET keyword == filter.keyword.v
             matches == jsonpath_select(data, filter.object)
             texts == {json_value_as_string(matches.values[i]) : i \in 1..Len(matches.values)}
         IN  IF ~matches.ok THEN FALSE
             ELSE IF Len(matches.values) = 0 THEN FALSE
             ELSE CASE filter.mode = "equals"   -> \E x \in texts : x = keyword
                    [] filter.mode = "contains" -> \E x \in texts : Contains(x, keyword)
                    [] filter.mode = "pattern"  ->
                          /\ RegexCompiles(keyword)
                          /\ \E x \in texts : RegexIsMatch(keyword, x)

passes_filter(widget, data) ==
    IF widget.filter.some THEN value_matches_filter(widget.filter.v, data) ELSE TRUE

\* a rendering whose filter looks at the selected part of the response
render_api_widget_FilterSelected(widget, response, term, cfg, e) ==
    Bind(select_api_data(widget.api.v, response), LAMBDA api_data :
        IF ~api_data.ok
        THEN [err |-> TRUE, out |-> None,
              how |-> IF response.some THEN "api_nodata" ELSE "api_fail"]
        ELSE IF ~passes_filter(widget, api_data.selected)
        THEN [err |-> FALSE, out |-> None, how |-> "api_filtered"]
        ELSE [err |-> FALSE,
              out |-> Some(compose_with_icon(
                          widget,
                          IF widget.template.some
                          THEN render_template(substitute_env(widget.template.v, e),
                                               api_data.selected)
                          ELSE JsonText(api_data.selected),
                          term, cfg)),
              how |-> "api_text"])

\* render_api_widget once the request has returned: Result<Option<String>>
\* as [err, out], with the way it ended in how
render_api_widget(widget, response, term, cfg, e) ==
    Bind(select_api_data(widget.api.v, response), LAMBDA api_data :
        IF ~api_data.ok
        THEN [err |-> TRUE, out |-> None,
              how |-> IF response.some THEN "api_nodata" ELSE "api_fail"]
        ELSE IF ~passes_filter(widget, api_data.root)
        THEN [err |-> FALSE, out |-> None, how |-> "api_filtered"]
        ELSE [err |-> FALSE,
              out |-> Some(compose_with_icon(
                          widget,
                          IF widget.template.some
                          THEN render_template(substitute_env(widget.template.v, e),
                                               api_data.selected)
                          ELSE JsonText(api_data.selected),
                          term, cfg)),
              how |-> "api_text"])

(***************************************************************************)
(* The grid (MultiLineGrid)                                                *)
(***************************************************************************)

EmptyMap == [x \in {} |-> <<>>]

\* BTreeMap::insert
MapInsert(m, k, v) == [x \in DOMAIN m \cup {k} |-> IF x = k THEN v ELSE m[x]]

\* a set_cell that keeps the text a cell already holds
set_cell_KeepFirst(rows, row, col, content) ==
    IF row \in DOMAIN rows /\ col \in DOMAIN rows[row]
    THEN rows
    ELSE MapInsert(rows, row,
                   MapInsert(IF row \in DOMAIN rows THEN rows[row] ELSE EmptyMap, col, content))

set_cell(rows, row, col, content) ==
    MapInsert(rows, row,
              MapInsert(IF row \in DOMAIN rows THEN rows[row] ELSE EmptyMap, col, content))

\* the text of a cell as Option<String>
Cell(rows, row, col) ==
    IF row \in DOMAIN rows /\ col \in DOMAIN rows[row] THEN Some(rows[row][col]) ELSE None

default_separator == <<"|">>
default_row_width == 120

\* MultilineRowConfig::default()
DefaultRowConfig == [separator |-> default_separator, max_width |-> default_row_width]

\* a truncate_to_width that keeps one character too many
truncate_to_width_OneMore(text, max_width) ==
    SubSeq(text, 1, Min(max_width + 1, Len(text)))

truncate_to_width(text, max_width) ==
    IF Len(text) <= max_width THEN text ELSE SubSeq(text, 1, max_width)

\* the configuration render() uses for a row
RowConfigOf(mcfg, row) ==
    LET row_key == NatToString(row)
    IN  IF row_key \in DOMAIN mcfg.rows THEN mcfg.rows[row_key] ELSE DefaultRowConfig

\* the line render() makes of one row
RenderRow(mcfg, row, columns) ==
    LET row_config == RowConfigOf(mcfg, row)
        cols == SortedSeq(DOMAIN columns)
        joined == JoinWith([i \in 1..Len(cols) |-> columns[cols[i]]], row_config.separator)
    IN  IF row_config.max_width > 0
        THEN truncate_to_width(joined, row_config.max_width)
        ELSE joined

\* MultiLineGrid::render
GridRender(rows, mcfg) ==
    LET rs == SortedSeq({r \in DOMAIN rows : DOMAIN rows[r] # {}})
    IN  [i \in 1..Len(rs) |-> RenderRow(mcfg, rs[i], rows[rs[i]])]

(***************************************************************************)
(* Inputs of the model: configurations, descriptor documents, environment  *)
(* values, terminal capabilities and API responses.                        *)
(***************************************************************************)

\* bounds of the exploration
MaxRenders == 2
MaxChanges == 1

KnownComponents == {"project", "model", "branch", "tokens", "usage", "status"}

AllEnabled == [c \in KnownComponents |-> TRUE]

NoForce == [force_text |-> FALSE, force_nerd_font |-> FALSE, force_emoji |-> FALSE]

AutoStyle == [enable_nerd_font |-> "auto", enable_emoji |-> "auto"]

Configs ==
    { [multiline |-> Some([enabled |-> TRUE, max_rows |-> 2,
                           rows |-> (<<"1">> :> [separator |-> <<",">>, max_width |-> 4])]),
       components |-> [order |-> <<"usage", "status">>, enabled |-> AllEnabled],
       terminal |-> NoForce, style |-> AutoStyle],
      [multiline |-> Some([enabled |-> TRUE, max_rows |-> 1,
                           rows |-> (<<"1">> :> [separator |-> <<"-">>, max_width |-> 0])]),
       components |-> [order |-> <<"status", "model", "extra", "usage">>,
                       enabled |-> [AllEnabled EXCEPT !["model"] = FALSE]],
       terminal |-> [NoForce EXCEPT !.force_text = TRUE], style |-> AutoStyle],
      [multiline |-> Some([enabled |-> FALSE, max_rows |-> 2, rows |-> EmptyMap]),
       components |-> [order |-> <<"usage", "status">>, enabled |-> AllEnabled],
       terminal |-> NoForce, style |-> AutoStyle] }

\* the capabilities detected for the terminal
Terminals == { [supports_emoji |-> TRUE, supports_nerd_font |-> FALSE] }

\* the environment: variable E is unset or holds a one-character value
Environments == { EmptyMap, <<"E">> :> <<"1">>, <<"E">> :> <<"0">> }

BaseWidget ==
    [enabled |-> TRUE, force |-> None, kind |-> "static", row |-> 1, col |-> 0,
     nerd_icon |-> <<>>, emoji_icon |-> <<>>, text_icon |-> <<>>,
     content |-> None, template |-> None, api |-> None,
     detection |-> None, filter |-> None]

NoDetection == [env |-> None, contains |-> None, equals |-> None, pattern |-> None]

RelativeApi ==
    [base_url |-> Some(<<"h", "t", "t", "p", ":", "/", "/", "h", "/">>),
     endpoint |-> Some(<<"/", "q">>), data_path |-> None]

PathM == <<"$", ".", "m">>

UsageDocs ==
    { "a" :> [BaseWidget EXCEPT
                !.content = Some(<<"h">>), !.emoji_icon = <<"*">>,
                !.detection = Some([NoDetection EXCEPT !.env = Some(<<"E">>),
                                                       !.equals = Some(<<"1">>)])]
      @@ "b" :> [BaseWidget EXCEPT
                !.kind = "api", !.row = 2, !.col = 1,
                !.api = Some([RelativeApi EXCEPT !.data_path = Some(PathM)]),
                !.filter = Some([object |-> PathM, mode |-> "equals",
                                 keyword |-> Some(<<"c">>)])],
      "a" :> [BaseWidget EXCEPT
                !.enabled = FALSE, !.force = Some(TRUE),
                !.content = Some(<<"$", "{", "E", "}", "\\", "$">>),
                !.detection = Some([NoDetection EXCEPT !.env = Some(<<"E">>),
                                                       !.contains = Some(<<"1">>)])]
      @@ "b" :> [BaseWidget EXCEPT
                !.kind = "api", !.template = Some(<<"{", "m", "}">>),
                !.api = Some([RelativeApi EXCEPT
                                !.endpoint = Some(HttpPrefix \o <<"h">>),
                                !.base_url = None])],
      "a" :> [BaseWidget EXCEPT !.row = 3, !.content = Some(<<"h">>)]
      @@ "b" :> [BaseWidget EXCEPT !.kind = "api", !.row = 0, !.api = Some(RelativeApi)] }

StatusDocs ==
    { "c" :> [BaseWidget EXCEPT
                !.kind = "api", !.row = 2, !.template = Some(<<"t", "{", "m", "}">>),
                !.api = Some(RelativeApi),
                !.filter = Some([object |-> PathM, mode |-> "pattern",
                                 keyword |-> Some(<<"s">>)])]
      @@ "d" :> [BaseWidget EXCEPT
                !.row = 2, !.col = 1, !.force = Some(FALSE), !.content = Some(<<"k">>)],
      "c" :> [BaseWidget EXCEPT !.kind = "api", !.row = 2]
      @@ "d" :> [BaseWidget EXCEPT !.col = 1, !.content = Some(<<"k">>)],
      "c" :> [BaseWidget EXCEPT
                !.kind = "api", !.col = 1,
                !.api = Some([RelativeApi EXCEPT !.base_url = None])]
      @@ "d" :> [BaseWidget EXCEPT !.enabled = FALSE, !.content = Some(<<"k">>)] }

\* what load_component_config finds for a component
Absent == [st |-> "absent"]
Malformed == [st |-> "bad"]
Loaded(doc) == [st |-> "ok", widgets |-> doc]

\* usage.toml may be missing, status.toml may be unreadable or malformed,
\* extra.toml does not exist
FileStates(c) ==
    CASE c = "usage"  -> {Absent} \cup {Loaded(d) : d \in UsageDocs}
      [] c = "status" -> {Malformed} \cup {Loaded(d) : d \in StatusDocs}
      [] OTHER        -> {Absent}

Components == {"usage", "status", "extra"}

\* a request fails (None) or returns a JSON document
Responses ==
    { None,
      Some(JObj(<<"m">> :> JStr(<<"c">>))),
      Some(JObj(<<"m">> :> JStr(<<"s">>))),
      Some(JObj(<<"n">> :> JNum(7))) }

(***************************************************************************)
(* The render call (MultiLineRenderer::render_extension_lines) and the     *)
(* operations around it                                                    *)
(***************************************************************************)

is_component_enabled(cfg, component_name) ==
    IF component_name \in KnownComponents THEN cfg.components.enabled[component_name]
    ELSE TRUE

\* a cache key shared by all widgets of a component
cache_key_ComponentOnly(component_name, widget_name) == component_name

cache_key(component_name, widget_name) == component_name \o "::" \o widget_name

\* the component whose widgets are being iterated
component_name == config.components.order[comp_idx]

\* an iteration that never falls back to the cache
StoreOutput_NoFallback(rows, cache, key, widget, widget_output) ==
    IF widget_output.some
    THEN [rows |-> set_cell(rows, widget.row, widget.col, widget_output.v),
          cache |-> MapInsert(cache, key, widget_output.v),
          placed |-> widget_output]
    ELSE [rows |-> rows, cache |-> cache, placed |-> None]

\* an iteration that forgets the cached text of a widget without output
StoreOutput_DropsStale(rows, cache, key, widget, widget_output) ==
    IF widget_output.some
    THEN [rows |-> set_cell(rows, widget.row, widget.col, widget_output.v),
          cache |-> MapInsert(cache, key, widget_output.v),
          placed |-> widget_output]
    ELSE IF key \in DOMAIN cache
    THEN [rows |-> set_cell(rows, widget.row, widget.col, cache[key]),
          cache |-> [x \in DOMAIN cache \ {key} |-> cache[x]],
          placed |-> Some(cache[key])]
    ELSE [rows |-> rows, cache |-> cache, placed |-> None]

\* render_component_widgets: what the iteration does with a widget's output;
\* placed is the text it hands to set_cell, if any
StoreOutput(rows, cache, key, widget, widget_output) ==
    IF widget_output.some
    THEN [rows |-> set_cell(rows, widget.row, widget.col, widget_output.v),
          cache |-> MapInsert(cache, key, widget_output.v),
          placed |-> widget_output]
    ELSE IF key \in DOMAIN cache
    THEN [rows |-> set_cell(rows, widget.row, widget.col, cache[key]), cache |-> cache,
          placed |-> Some(cache[key])]
    ELSE [rows |-> rows, cache |-> cache, placed |-> None]

\* the observation of a step that concerns no widget
Plain(kind) ==
    [kind |-> kind, key |-> "", row |-> 0, col |-> 0, had |-> FALSE, prev |-> <<>>,
     cell_before |-> None, rest |-> {}, output |-> None, logged |-> FALSE]

\* the observation of a step on widget w of the current component: its
\* cache entry and grid cell before the step, the widgets left to iterate,
\* the output of its resolution and whether log_error was called
Seen(kind, w, widget_output, logged) ==
    LET widget == component_config[w]
        key == cache_key(component_name, w)
    IN  [kind |-> kind, key |-> key, row |-> widget.row, col |-> widget.col,
         had |-> key \in DOMAIN widget_cache,
         prev |-> IF key \in DOMAIN widget_cache THEN widget_cache[key] ELSE <<>>,
         cell_before |-> Cell(grid, widget.row, widget.col),
         rest |-> todo \ {w}, output |-> widget_output, logged |-> logged]

ApiFailKinds == {"api_urlerr", "api_fail", "api_nodata"}

(***************************************************************************)
(* The throttle of the generator (src/src/core/generator.rs)               *)
(***************************************************************************)

\* Duration::from_millis(300), the update interval under update_throttling
UpdateIntervalMs == 300

\* GeneratorOptions::default
DefaultOptions == [update_throttling |-> TRUE, disable_cache |-> FALSE]

\* StatuslineGenerator::new: the fields the throttle and the storage set-up use
StatuslineGenerator_new(options) ==
    [last_update |-> None,
     last_result |-> None,
     update_interval |-> IF options.update_throttling THEN UpdateIntervalMs ELSE 0,
     disable_cache |-> options.disable_cache,
     storage_initialized |-> FALSE,
     active_project_id |-> None]

\* a throttle that lets the interval itself pass as too early
should_update_Strict(g, now) ==
    IF g.disable_cache \/ g.update_interval = 0
    THEN [update |-> TRUE, last_update |-> g.last_update]
    ELSE IF ~g.last_update.some
    THEN [update |-> TRUE, last_update |-> Some(now)]
    ELSE IF now - g.last_update.v > g.update_interval
    THEN [update |-> TRUE, last_update |-> Some(now)]
    ELSE [update |-> FALSE, last_update |-> g.last_update]

\* should_update at instant now (Instant::now(), in milliseconds): the answer
\* and the value it leaves in last_update
should_update(g, now) ==
    IF g.disable_cache \/ g.update_interval = 0
    THEN [update |-> TRUE, last_update |-> g.last_update]
    ELSE IF ~g.last_update.some
    THEN [update |-> TRUE, last_update |-> Some(now)]
    ELSE IF now - g.last_update.v >= g.update_interval
    THEN [update |-> TRUE, last_update |-> Some(now)]
    ELSE [update |-> FALSE, last_update |-> g.last_update]

\* no function has been called on its own
\* the instants the clock may show
Clocks == {MillisThreshold, F(1000086400, 500, 1)}

NoProbe == [op |-> "none", now |-> MillisThreshold]

\* nothing done yet: no widget visited, no API widget failed, no cell written
NewCycle == [visited |-> {}, failed |-> {}, last |-> EmptyMap]

NoUpdate == [first |-> FALSE, stale |-> {}]

Init ==
    /\ config \in Configs
    /\ widget_cache = EmptyMap
    /\ grid = EmptyMap
    /\ env \in Environments
    /\ files \in [Components -> UNION {FileStates(c) : c \in Components}]
    /\ \A c \in Components : files[c] \in FileStates(c)
    /\ pc = "idle"
    /\ multiline_config = [enabled |-> TRUE, max_rows |-> 0, rows |-> EmptyMap]
    /\ terminal = CHOOSE t \in Terminals : TRUE
    /\ comp_idx = 0
    /\ component_config = EmptyMap
    /\ todo = {}
    /\ current = ""
    /\ result = None
    /\ renders = 0
    /\ changes = 0
    /\ cycle = NewCycle
    /\ since_update = NoUpdate
    /\ ev = Plain("new")
    /\ generator = StatuslineGenerator_new(DefaultOptions)
    /\ probe = NoProbe

\* render_extension_lines when multi-line mode is absent or disabled
RenderDisabled ==
    /\ pc = "idle"
    /\ renders < MaxRenders
    /\ ~(config.multiline.some /\ config.multiline.v.enabled)
    /\ result' = Some([success |-> TRUE, lines |-> <<>>, error |-> None])
    /\ renders' = renders + 1
    /\ cycle' = NewCycle
    /\ since_update' = NoUpdate
    /\ ev' = Plain("disabled")
    /\ UNCHANGED <<generator, probe, config, widget_cache, grid, env, files, pc, multiline_config,
                   terminal, comp_idx, component_config, todo, current, changes>>

\* an entry that does not clear the grid
BeginRender_KeepsGrid(term) ==
    /\ pc = "idle"
    /\ renders < MaxRenders
    /\ config.multiline.some /\ config.multiline.v.enabled
    /\ multiline_config' = config.multiline.v
    /\ terminal' = term
    /\ comp_idx' = 1
    /\ pc' = "components"
    /\ renders' = renders + 1
    /\ cycle' = NewCycle
    /\ ev' = Plain("begin")
    /\ UNCHANGED <<generator, probe, config, widget_cache, grid, env, files, component_config, todo, current,
                   result, changes, since_update>>

\* render_extension_lines: entry, grid.clear()
BeginRender(term) ==
    /\ pc = "idle"
    /\ renders < MaxRenders
    /\ config.multiline.some /\ config.multiline.v.enabled
    /\ multiline_config' = config.multiline.v
    /\ terminal' = term
    /\ grid' = EmptyMap
    /\ comp_idx' = 1
    /\ pc' = "components"
    /\ renders' = renders + 1
    /\ cycle' = NewCycle
    /\ ev' = Plain("begin")
    /\ UNCHANGED <<generator, probe, config, widget_cache, env, files, component_config, todo, current,
                   result, changes, since_update>>

SkipDisabledComponent ==
    /\ pc = "components"
    /\ comp_idx <= Len(config.components.order)
    /\ ~is_component_enabled(config, component_name)
    /\ comp_idx' = comp_idx + 1
    /\ ev' = Plain("skip_component")
    /\ UNCHANGED <<generator, probe, config, widget_cache, grid, env, files, pc, multiline_config,
                   terminal, component_config, todo, current, result, renders,
                   changes, cycle, since_update>>

\* load_component_config returns Ok(None)
NoDescriptor ==
    /\ pc = "components"
    /\ comp_idx <= Len(config.components.order)
    /\ is_component_enabled(config, component_name)
    /\ files[component_name].st = "absent"
    /\ comp_idx' = comp_idx + 1
    /\ ev' = Plain("no_descriptor")
    /\ UNCHANGED <<generator, probe, config, widget_cache, grid, env, files, pc, multiline_config,
                   terminal, component_config, todo, current, result, renders,
                   changes, cycle, since_update>>

\* load_component_config returns Err: the error names the file of the component
LoadFails ==
    /\ pc = "components"
    /\ comp_idx <= Len(config.components.order)
    /\ is_component_enabled(config, component_name)
    /\ files[component_name].st = "bad"
    /\ result' = Some([success |-> FALSE, lines |-> <<>>, error |-> Some(component_name)])
    /\ pc' = "idle"
    /\ since_update' = NoUpdate
    /\ ev' = Plain("load_failed")
    /\ UNCHANGED <<generator, probe, config, widget_cache, grid, env, files, multiline_config,
                   terminal, comp_idx, component_config, todo, current, renders,
                   changes, cycle>>

\* load_component_config returns Ok(Some(config))
LoadComponent ==
    /\ pc = "components"
    /\ comp_idx <= Len(config.components.order)
    /\ is_component_enabled(config, component_name)
    /\ files[component_name].st = "ok"
    /\ component_config' = files[component_name].widgets
    /\ todo' = DOMAIN files[component_name].widgets
    /\ pc' = "widgets"
    /\ ev' = Plain("loaded")
    /\ UNCHANGED <<generator, probe, config, widget_cache, grid, env, files, multiline_config,
                   terminal, comp_idx, current, result, renders, changes, cycle,
                   since_update>>

\* render_extension_lines: grid.render() and the successful return
FinishRender ==
    /\ pc = "components"
    /\ comp_idx > Len(config.components.order)
    /\ result' = Some([success |-> TRUE, lines |-> GridRender(grid, multiline_config),
                       error |-> None])
    /\ pc' = "idle"
    /\ since_update' = NoUpdate
    /\ ev' = Plain("finish")
    /\ UNCHANGED <<generator, probe, config, widget_cache, grid, env, files, multiline_config,
                   terminal, comp_idx, component_config, todo, current, renders,
                   changes, cycle>>

\* the widget passes should_render_widget and check_detection
PassesGate(widget) == should_render_widget(widget) /\ check_detection(widget, env)

\* a row check that forgets row 0
RowInRange_NoZero(widget) == widget.row <= multiline_config.max_rows

RowInRange(widget) == ~(widget.row = 0 \/ widget.row > multiline_config.max_rows)

\* the part of a widget step shared by every way it can end: the iteration
\* goes on with the widgets left
WidgetStep(w, kind, logged, widget_output, stored) ==
    /\ grid' = stored.rows
    /\ widget_cache' = stored.cache
    /\ todo' = todo \ {w}
    /\ pc' = "widgets"
    /\ current' = ""
    /\ cycle' = [visited |-> cycle.visited \cup {<<comp_idx, w>>},
                 failed |-> IF kind \in ApiFailKinds
                            THEN cycle.failed \cup {cache_key(component_name, w)}
                            ELSE cycle.failed,
                 last |-> IF stored.placed.some
                          THEN MapInsert(cycle.last,
                                         <<component_config[w].row, component_config[w].col>>,
                                         stored.placed.v)
                          ELSE cycle.last]
    /\ ev' = Seen(kind, w, widget_output, logged)
    /\ UNCHANGED <<generator, probe, config, env, files, multiline_config, terminal, comp_idx,
                   component_config, result, renders, changes, since_update>>

Untouched == [rows |-> grid, cache |-> widget_cache, placed |-> None]

\* a gate whose failure still lets the cache fallback place text
GateSkip_Fallback(w) ==
    /\ pc = "widgets"
    /\ w \in todo
    /\ ~PassesGate(component_config[w])
    /\ WidgetStep(w, "gate_skip", FALSE, None,
                  StoreOutput(grid, widget_cache, cache_key(component_name, w),
                              component_config[w], None))

\* the widget fails should_render_widget or check_detection: continue
GateSkip(w) ==
    /\ pc = "widgets"
    /\ w \in todo
    /\ ~PassesGate(component_config[w])
    /\ WidgetStep(w, "gate_skip", FALSE, None, Untouched)

\* a row check made after the resolution: the text of a static widget is
\* cached although the widget is not placed
RowSkip_AfterResolution(w) ==
    LET widget == component_config[w]
    IN  /\ pc = "widgets"
        /\ w \in todo
        /\ PassesGate(widget)
        /\ ~RowInRange(widget)
        /\ WidgetStep(w, "row_skip", FALSE, None,
                      [rows |-> grid,
                       cache |-> IF widget.kind = "static"
                                 THEN MapInsert(widget_cache, cache_key(component_name, w),
                                                render_static_widget(widget, terminal,
                                                                     config, env))
                                 ELSE widget_cache,
                       placed |-> None])

\* row == 0 || row > max_rows: continue
RowSkip(w) ==
    /\ pc = "widgets"
    /\ w \in todo
    /\ PassesGate(component_config[w])
    /\ ~RowInRange(component_config[w])
    /\ WidgetStep(w, "row_skip", FALSE, None, Untouched)

StaticWidget(w) ==
    LET widget == component_config[w]
    IN  /\ pc = "widgets"
        /\ w \in todo
        /\ PassesGate(widget)
        /\ RowInRange(widget)
        /\ widget.kind = "static"
        /\ \E widget_output \in {Some(render_static_widget(widget, terminal, config, env))} :
              WidgetStep(w, "static", FALSE, widget_output,
                         StoreOutput(grid, widget_cache, cache_key(component_name, w),
                                     widget, widget_output))

\* render_api_widget returns Ok(None): the widget has no api table
ApiNoConfig(w) ==
    LET widget == component_config[w]
    IN  /\ pc = "widgets"
        /\ w \in todo
        /\ PassesGate(widget)
        /\ RowInRange(widget)
        /\ widget.kind = "api"
        /\ ~widget.api.some
        /\ WidgetStep(w, "api_noconfig", FALSE, None,
                      StoreOutput(grid, widget_cache, cache_key(component_name, w), widget,
                                  None))

\* a URL error that is propagated and ends the render call
ApiUrlError_Aborts(w) ==
    LET widget == component_config[w]
    IN  /\ pc = "widgets"
        /\ w \in todo
        /\ PassesGate(widget)
        /\ RowInRange(widget)
        /\ widget.kind = "api"
        /\ widget.api.some
        /\ ~resolve_url(widget.api.v, env).ok
        /\ result' = Some([success |-> FALSE, lines |-> <<>>, error |-> Some(w)])
        /\ pc' = "idle"
        /\ since_update' = NoUpdate
        /\ ev' = Seen("api_urlerr", w, None, TRUE)
        /\ UNCHANGED <<generator, probe, config, widget_cache, grid, env, files, multiline_config,
                       terminal, comp_idx, component_config, todo, current, renders,
                       changes, cycle>>

\* fetch_api_data fails before any request: no endpoint, or a relative
\* endpoint without base_url.  The error is logged, the output is None.
ApiUrlError(w) ==
    LET widget == component_config[w]
    IN  /\ pc = "widgets"
        /\ w \in todo
        /\ PassesGate(widget)
        /\ RowInRange(widget)
        /\ widget.kind = "api"
        /\ widget.api.some
        /\ ~resolve_url(widget.api.v, env).ok
        /\ WidgetStep(w, "api_urlerr", TRUE, None,
                      StoreOutput(grid, widget_cache, cache_key(component_name, w), widget,
                                  None))

\* a request that is handed off without being awaited: the iteration goes on
\* while it is outstanding
ApiRequest_Detached(w) ==
    LET widget == component_config[w]
    IN  /\ pc = "widgets"
        /\ w \in todo
        /\ PassesGate(widget)
        /\ RowInRange(widget)
        /\ widget.kind = "api"
        /\ widget.api.some
        /\ resolve_url(widget.api.v, env).ok
        /\ current' = w
        /\ todo' = todo \ {w}
        /\ ev' = Seen("request", w, None, FALSE)
        /\ UNCHANGED <<generator, probe, config, widget_cache, grid, env, files, multiline_config,
                       terminal, comp_idx, component_config, pc, result, renders,
                       changes, cycle, since_update>>

\* fetch_api_data hands the request to spawn_blocking and awaits it
ApiRequest(w) ==
    LET widget == component_config[w]
    IN  /\ pc = "widgets"
        /\ w \in todo
        /\ PassesGate(widget)
        /\ RowInRange(widget)
        /\ widget.kind = "api"
        /\ widget.api.some
        /\ resolve_url(widget.api.v, env).ok
        /\ pc' = "await"
        /\ current' = w
        /\ ev' = Seen("request", w, None, FALSE)
        /\ UNCHANGED <<generator, probe, config, widget_cache, grid, env, files, multiline_config,
                       terminal, comp_idx, component_config, todo, result, renders,
                       changes, cycle, since_update>>

\* a response whose rejection by the filter skips the widget outright
ApiResponse_FilterSkips(response) ==
    LET widget == component_config[current]
        r == render_api_widget(widget, response, terminal, config, env)
    IN  /\ pc = "await"
        /\ WidgetStep(current, r.how, r.err, r.out,
                      IF r.how = "api_filtered"
                      THEN Untouched
                      ELSE StoreOutput(grid, widget_cache,
                                       cache_key(component_name, current), widget, r.out))

\* the awaited request ends; render_api_widget finishes (an Err is logged and
\* becomes None) and the iteration stores the output
ApiResponse(response) ==
    LET widget == component_config[current]
        r == render_api_widget(widget, response, terminal, config, env)
    IN  /\ pc = "await"
        /\ WidgetStep(current, r.how, r.err, r.out,
                      StoreOutput(grid, widget_cache, cache_key(component_name, current),
                                  widget, r.out))

\* render_component_widgets returns Ok(())
EndComponent ==
    /\ pc = "widgets"
    /\ todo = {}
    /\ comp_idx' = comp_idx + 1
    /\ pc' = "components"
    /\ ev' = Plain("end_component")
    /\ UNCHANGED <<generator, probe, config, widget_cache, grid, env, files, multiline_config,
                   terminal, component_config, todo, current, result, renders,
                   changes, cycle, since_update>>

\* Init ranges over every configuration, environment and set of files, so a
\* change before the first render call only leads to another initial state:
\* the changes below follow a first call (result.some).

\* an update_config that keeps the widget cache
UpdateConfig_KeepsCache(cfg) ==
    /\ pc = "idle"
    /\ result.some
    /\ changes < MaxChanges
    /\ config' = cfg
    /\ changes' = changes + 1
    /\ since_update' = [first |-> TRUE, stale |-> DOMAIN widget_cache]
    /\ ev' = Plain("update_config")
    /\ UNCHANGED <<generator, probe, widget_cache, grid, env, files, pc, multiline_config, terminal,
                   comp_idx, component_config, todo, current, result, renders, cycle>>

\* MultiLineRenderer::update_config (base_dir decides which files are found)
UpdateConfig(cfg) ==
    /\ pc = "idle"
    /\ result.some
    /\ changes < MaxChanges
    /\ config' = cfg
    /\ widget_cache' = EmptyMap
    /\ changes' = changes + 1
    /\ since_update' = [first |-> TRUE, stale |-> DOMAIN widget_cache]
    /\ ev' = Plain("update_config")
    /\ UNCHANGED <<generator, probe, grid, env, files, pc, multiline_config, terminal, comp_idx,
                   component_config, todo, current, result, renders, cycle>>

\* the environment of the process changes between two render calls
SetEnv(e) ==
    /\ pc = "idle"
    /\ result.some
    /\ changes < MaxChanges
    /\ e # env
    /\ env' = e
    /\ changes' = changes + 1
    /\ ev' = Plain("set_env")
    /\ UNCHANGED <<generator, probe, config, widget_cache, grid, files, pc, multiline_config, terminal,
                   comp_idx, component_config, todo, current, result, renders, cycle,
                   since_update>>

\* a component's descriptor file is written, broken or removed between two
\* render calls
WriteDescriptor(c, f) ==
    /\ pc = "idle"
    /\ result.some
    /\ changes < MaxChanges
    /\ f # files[c]
    /\ files' = [files EXCEPT ![c] = f]
    /\ changes' = changes + 1
    /\ ev' = Plain("write_descriptor")
    /\ UNCHANGED <<generator, probe, config, widget_cache, grid, env, pc, multiline_config, terminal,
                   comp_idx, component_config, todo, current, result, renders, cycle,
                   since_update>>

Next ==
    \/ RenderDisabled
    \/ \E term \in Terminals : BeginRender(term)
    \/ SkipDisabledComponent
    \/ NoDescriptor
    \/ LoadFails
    \/ LoadComponent
    \/ FinishRender
    \/ \E w \in todo : GateSkip(w)
    \/ \E w \in todo : RowSkip(w)
    \/ \E w \in todo : StaticWidget(w)
    \/ \E w \in todo : ApiNoConfig(w)
    \/ \E w \in todo : ApiUrlError(w)
    \/ \E w \in todo : ApiRequest(w)
    \/ \E response \in Responses : ApiResponse(response)
    \/ EndComponent
    \/ \E cfg \in Configs : UpdateConfig(cfg)
    \/ \E e \in Environments : SetEnv(e)
    \/ \E c \in Components : \E f \in FileStates(c) : WriteDescriptor(c, f)

Spec == Init /\ [][Next]_vars

(***************************************************************************)
(* Properties of the render call                                           *)
(***************************************************************************)

\* the steps that resolve a widget and hand its output to the store
StoreKinds == {"static", "api_noconfig", "api_urlerr", "api_fail", "api_nodata",
               "api_filtered", "api_text"}

\* the steps that end with no output although the widget passed the gate
\* and the row check
NoContentKinds == {"api_noconfig", "api_urlerr", "api_fail", "api_nodata", "api_filtered"}

\* the cell of the widget of the last step
EvCell == Cell(grid, ev.row, ev.col)

\* what the cell of the last step must hold when the step had no output and
\* the cache fallback applies
FallbackCell == IF ev.had THEN Some(ev.prev) ELSE ev.cell_before

\* every widget of every enabled component whose descriptor loads
AllWidgets ==
    LET order == config.components.order
    IN  UNION { {<<i, w>> : w \in DOMAIN files[order[i]].widgets} :
                i \in {j \in 1..Len(order) :
                         /\ is_component_enabled(config, order[j])
                         /\ files[order[j]].st = "ok"} }

C2_GateSkipWritesNothing ==
    ev.kind = "gate_skip" =>
        /\ EvCell = ev.cell_before
        /\ <<ev.row, ev.col>> \in DOMAIN cycle.last => EvCell = Some(cycle.last[<<ev.row, ev.col>>])
        /\ <<ev.row, ev.col>> \notin DOMAIN cycle.last => EvCell = None
        /\ ev.had => ev.key \in DOMAIN widget_cache /\ widget_cache[ev.key] = ev.prev

\* a widget with cached text fails the gate and its cell stays unset
C2_Witness ==
    /\ ev.kind = "gate_skip"
    /\ ev.had
    /\ EvCell = None

\* C3: a response that the widget's filter rejects gives no content and no
\* error (nothing is logged, the iteration goes on), and the cache fallback
\* applies: the cell gets the cached text when there is one.
C3_FilterRejectFallsBack ==
    ev.kind = "api_filtered" =>
        /\ ~ev.logged
        /\ ev.output = None
        /\ pc = "widgets"
        /\ todo = ev.rest
        /\ EvCell = FallbackCell
        /\ ev.had => widget_cache[ev.key] = ev.prev
        /\ ~ev.had => ev.key \notin DOMAIN widget_cache

\* the filter rejects a response for a widget with cached text, and the cell
\* holds the cached text
C3_Witness ==
    /\ ev.kind = "api_filtered"
    /\ ev.had
    /\ ev.cell_before = None
    /\ EvCell = Some(ev.prev)

\* C4: the cache is read only when an API failure left the widget without
\* content; a deliberate skip (gate, row range, filter rejection) never gets
\* cached text placed in the widget's cell.
C4_NoCachedTextOnSkip ==
    ev.kind \in {"gate_skip", "row_skip", "api_filtered"} => EvCell = ev.cell_before

\* a response that the filter rejects leaves the cached text of an earlier
\* call in a cell that held nothing
C4_Witness ==
    /\ ev.kind = "api_filtered"
    /\ ~ev.logged
    /\ ev.had
    /\ EvCell # ev.cell_before
    /\ cycle.last[<<ev.row, ev.col>>] = ev.prev

\* C5: update_config empties the cache, so during the first render call
\* after it a widget that resolves to no content finds no entry of its own
\* and its cell is left as it was, whatever was cached before.
C5_UpdateConfigClearsCache ==
    /\ ev.kind = "update_config" => widget_cache = EmptyMap
    /\ (since_update.first /\ ev.kind \in NoContentKinds) =>
          /\ ~ev.had
          /\ EvCell = ev.cell_before
          /\ <<ev.row, ev.col>> \notin DOMAIN cycle.last => EvCell = None

\* in the first call after an update_config, a widget whose text was cached
\* before it resolves to no content and its cell is unset
C5_Witness ==
    /\ since_update.first
    /\ ev.kind \in NoContentKinds
    /\ ev.key \in since_update.stale
    /\ EvCell = None

\* the steps after which the renderer can be idle
IdleKinds == {"new", "finish", "disabled", "load_failed", "update_config", "set_env",
              "write_descriptor"}

\* C6: a render call returns success = false only when the descriptor of an
\* enabled component fails to load; then lines is empty, error is set and no
\* component after the failing one is processed.  Every other return has
\* success = true and no error.
C6_FailureOnlyOnLoad ==
    /\ pc = "idle" => ev.kind \in IdleKinds
    /\ ev.kind \in {"finish", "disabled"} => result.v.success /\ result.v.error = None
    /\ ev.kind = "load_failed" =>
          /\ ~result.v.success
          /\ result.v.lines = <<>>
          /\ result.v.error = Some(component_name)
          /\ is_component_enabled(config, component_name)
          /\ files[component_name].st = "bad"
          /\ \A v \in cycle.visited : v[1] < comp_idx
    /\ result.some =>
          /\ result.v.success => result.v.error = None
          /\ ~result.v.success => result.v.lines = <<>> /\ result.v.error.some

\* a descriptor fails to load after an earlier component has written cells
C6_Witness ==
    /\ ev.kind = "load_failed"
    /\ ~result.v.success
    /\ grid # EmptyMap
    /\ cycle.last # EmptyMap

\* C7: every populated row of the grid lies in 1..max_rows of the
\* configuration the cycle runs with; a widget outside that range writes
\* nothing, neither its output nor cached text.
C7_RowsInRange ==
    /\ \A r \in DOMAIN grid : 1 <= r /\ r <= multiline_config.max_rows
    /\ \A c \in DOMAIN cycle.last : 1 <= c[1] /\ c[1] <= multiline_config.max_rows

\* a widget with cached text targets a row beyond max_rows and is skipped
C7_Witness ==
    /\ ev.kind = "row_skip"
    /\ ev.had
    /\ ev.row > multiline_config.max_rows
    /\ ev.row \notin DOMAIN grid

\* the i-th smallest element of a set of numbers
NthSmallest(S, i) == CHOOSE x \in S : Cardinality({y \in S : y < x}) = i - 1

\* the separator and the width that apply to a row: those of the entry of
\* multiline.rows under the row's decimal number, else the defaults
RowSeparator(r) ==
    IF NatToString(r) \in DOMAIN multiline_config.rows
    THEN multiline_config.rows[NatToString(r)].separator
    ELSE <<"|">>

RowMaxWidth(r) ==
    IF NatToString(r) \in DOMAIN multiline_config.rows
    THEN multiline_config.rows[NatToString(r)].max_width
    ELSE 120

\* the cells of row r with columns in C, in ascending column order, joined
\* by the row's separator
RECURSIVE JoinedCells(_, _)
JoinedCells(r, C) ==
    IF C = {} THEN <<>>
    ELSE LET m == CHOOSE x \in C : \A y \in C : y <= x
         IN  IF C = {m} THEN grid[r][m]
             ELSE JoinedCells(r, C \ {m}) \o RowSeparator(r) \o grid[r][m]

\* line is what the claim says of row r
IsLineOf(line, r) ==
    LET joined == JoinedCells(r, DOMAIN grid[r])
        width == RowMaxWidth(r)
    IN  IF width > 0
        THEN /\ Len(line) = Min(width, Len(joined))
             /\ line = SubSeq(joined, 1, Len(line))
        ELSE line = joined

\* C8: each rendered line is the texts of its row's cells in ascending
\* column order joined by the row's separator (the default row settings when
\* the row has none), cut to its first min(max_width, length) characters
\* when max_width > 0 and left whole when max_width is 0.
C8_LineOfRow ==
    ev.kind = "finish" =>
        \A i \in 1..Len(result.v.lines) :
            /\ i <= Cardinality(DOMAIN grid)
            /\ IsLineOf(result.v.lines[i], NthSmallest(DOMAIN grid, i))

\* a finished call has a row of two cells whose joined text is cut, and a
\* row of two cells joined by the default separator
C8_Witness ==
    /\ ev.kind = "finish"
    /\ \E r \in DOMAIN grid :
          /\ Cardinality(DOMAIN grid[r]) >= 2
          /\ RowMaxWidth(r) > 0
          /\ Len(JoinedCells(r, DOMAIN grid[r])) > RowMaxWidth(r)
    /\ \E r \in DOMAIN grid :
          /\ Cardinality(DOMAIN grid[r]) >= 2
          /\ NatToString(r) \notin DOMAIN multiline_config.rows

\* the rows that received a cell in this render call
WrittenRows == {c[1] : c \in DOMAIN cycle.last}

\* C9: the lines of a finished call correspond one to one, in ascending row
\* order, to the rows that received at least one cell in that call; a row
\* that received none gives no line.
C9_LinesFollowRows ==
    ev.kind = "finish" =>
        /\ Len(result.v.lines) = Cardinality(WrittenRows)
        /\ \A i \in 1..Len(result.v.lines) :
              LET r == NthSmallest(WrittenRows, i)
              IN  r \in DOMAIN grid /\ IsLineOf(result.v.lines[i], r)

\* a finished call wrote cells in row 2 only and returns one line
C9_Witness ==
    /\ ev.kind = "finish"
    /\ WrittenRows = {2}
    /\ Len(result.v.lines) = 1

\* C10: when several widgets of a call write the same cell, nothing fails
\* and the cell holds the text of the last write, fresh or taken from the
\* cache: every cell written in the call holds the last text handed to
\* set_cell for it, and the step that writes goes on with the iteration.
C10_LastWriterWins ==
    /\ \A c \in DOMAIN cycle.last : Cell(grid, c[1], c[2]) = Some(cycle.last[c])
    /\ (ev.kind \in StoreKinds /\ (ev.output.some \/ ev.had)) =>
          /\ pc = "widgets"
          /\ todo = ev.rest
          /\ EvCell = (IF ev.output.some THEN ev.output ELSE Some(ev.prev))

\* a step overwrites the different text another widget wrote to its cell
C10_Witness ==
    /\ ev.kind \in StoreKinds
    /\ ev.cell_before.some
    /\ EvCell.some
    /\ EvCell # ev.cell_before

(***************************************************************************)
(* The generator (src/src/core/generator.rs)                               *)
(***************************************************************************)

\* char::to_ascii_uppercase for the letters of a preset
UpperChar(c) ==
    CASE c = "p" -> "P" [] c = "m" -> "M" [] c = "b" -> "B"
      [] c = "t" -> "T" [] c = "u" -> "U" [] c = "s" -> "S" [] OTHER -> c

\* the match of parse_preset: Option<&str>
PresetComponent(c) ==
    CASE UpperChar(c) = "P" -> Some("project")
      [] UpperChar(c) = "M" -> Some("model")
      [] UpperChar(c) = "B" -> Some("branch")
      [] UpperChar(c) = "T" -> Some("tokens")
      [] UpperChar(c) = "U" -> Some("usage")
      [] UpperChar(c) = "S" -> Some("status")
      [] OTHER -> None

\* a parse_preset that keeps a component each time its letter occurs
RECURSIVE parse_preset_KeepRepeats(_)
parse_preset_KeepRepeats(preset) ==
    IF Len(preset) = 0 THEN <<>>
    ELSE (IF PresetComponent(Head(preset)).some
          THEN <<PresetComponent(Head(preset)).v>> ELSE <<>>)
         \o parse_preset_KeepRepeats(Tail(preset))

\* the iterator chain of parse_preset from the characters left, with the
\* set seen so far
RECURSIVE PresetFrom(_, _)
PresetFrom(chars, seen) ==
    IF Len(chars) = 0 THEN <<>>
    ELSE Bind(PresetComponent(Head(chars)), LAMBDA name :
             IF name.some /\ name.v \notin seen
             THEN <<name.v>> \o PresetFrom(Tail(chars), seen \cup {name.v})
             ELSE PresetFrom(Tail(chars), seen))

parse_preset(preset) == PresetFrom(preset, {})

(***************************************************************************)
(* Functions called on their own: the renderer is idle and one function is *)
(* applied once to inputs drawn from the sets below; probe keeps the       *)
(* inputs and the result.                                                  *)
(***************************************************************************)

engine_vars == <<config, widget_cache, grid, env, files, pc, multiline_config,
                 terminal, comp_idx, component_config, todo, current, result,
                 renders, changes, cycle, since_update, ev, generator>>

\* values of variable E for the detection rules: unset, or one of three texts
ProbeEnvs == Environments \cup { <<"E">> :> <<"1", "0">> }

\* detection tables: with or without a variable name, with every choice of
\* conditions; "(" is a pattern that does not compile
GateRules ==
    { [env |-> n, equals |-> eq, contains |-> co, pattern |-> pa] :
        n \in {None, Some(<<"E">>)},
        eq \in {None, Some(<<"1">>)},
        co \in {None, Some(<<"0">>)},
        pa \in {None, Some(<<"1">>), Some(<<"(">>)} }

GateWidgets ==
    { [BaseWidget EXCEPT !.enabled = en, !.force = fo, !.detection = de] :
        en \in BOOLEAN,
        fo \in {None, Some(TRUE), Some(FALSE)},
        de \in {None} \cup {Some(r) : r \in GateRules} }

InitEval ==
    /\ config = CHOOSE c \in Configs : c.multiline.v.enabled /\ c.multiline.v.max_rows = 2
    /\ widget_cache = EmptyMap
    /\ grid = EmptyMap
    /\ env = CHOOSE e \in ProbeEnvs : DOMAIN e = {}
    /\ probe \in {[NoProbe EXCEPT !.now = n] : n \in Clocks}
    /\ files = [c \in Components |-> Absent]
    /\ pc = "idle"
    /\ multiline_config = [enabled |-> TRUE, max_rows |-> 0, rows |-> EmptyMap]
    /\ terminal = CHOOSE t \in Terminals : TRUE
    /\ comp_idx = 0
    /\ component_config = EmptyMap
    /\ todo = {}
    /\ current = ""
    /\ result = None
    /\ renders = 0
    /\ changes = 0
    /\ cycle = NewCycle
    /\ since_update = NoUpdate
    /\ ev = Plain("new")
    /\ generator = StatuslineGenerator_new(DefaultOptions)

\* the pieces templates are built from: texts without a placeholder, and
\* placeholders
Literals ==
    { <<"x", " ">>,
      <<"}">> }

Placeholders ==
    { <<"{", "a", "}">>,
      <<"{", "q", " ", "/", " ", "5", "0", "0", "0", "0", "0", ":", ".", "2", "f", "%", "}">>,
      <<"{", "a", " ", "/", " ", "0", "}">>,
      <<"{", "p", "}">>,
      <<"{", "a", " ", "/", " ", "0", ":", ".", "2", "f", "}">>,
      <<"{", "a", ":", ".", "x", "f", "}">> }

Pieces == Literals \cup Placeholders

MaxPieces == 3

\* the documents templates are rendered against
TemplateDocs ==
    { JObj(<<"a">> :> JNum(7) @@ <<"b">> :> JNum(5) @@ <<"s">> :> JStr(<<"x">>) @@ <<"n">> :> JNull
           @@ <<"q">> :> JFloat(FromInt(500000)) @@ <<"o">> :> JObj(<<"c">> :> JNum(3))
           @@ <<"k">> :> JStr(<<"1", "2">>) @@ <<"t">> :> JBool(TRUE)
           @@ <<"d">> :> JStr(CHOOSE text \in DOMAIN KnownDates : TRUE)),
      JObj(<<"a">> :> JStr(<<"x">>) @@ <<"p">> :> JBool(TRUE)) }

\* render_api_widget: the template of a widget rendered against a document
TemplateCall(pieces, data) ==
    /\ probe.op = "none"
    /\ probe' = [op |-> "template", now |-> probe.now, pieces |-> pieces, data |-> data,
                 out |-> render_template(Concat(pieces), data)]
    /\ UNCHANGED engine_vars

\* the paths read both as a bare placeholder and as an operand
CoercePaths == { <<"p">>, <<"n">>, <<"s">>, <<"o">>, <<"o", ".", "x">>, <<"o", ".", "c">>, <<"a">>, <<"k">>, <<"t">>, <<"d">> }

\* render_template: a path as the operand of a sum and as a placeholder
CoerceCall(path, data) ==
    /\ probe.op = "none"
    /\ probe' = [op |-> "coerce", now |-> probe.now, path |-> path, data |-> data,
                 sum |-> evaluate_expression(path \o <<" ", "+", " ", "1">>, data),
                 operand |-> render_template(<<"{">> \o path \o <<" ", "+", " ", "1", "}">>, data),
                 bare |-> render_template(<<"{">> \o path \o <<"}">>, data)]
    /\ UNCHANGED engine_vars

\* the document differences are taken in: whole and fractional seconds,
\* milliseconds, texts of a number and of a date, and values that are no
\* instant
TimeDoc ==
    JObj(<<"a">> :> JNum(7) @@ <<"b">> :> JNum(5)
         @@ <<"e">> :> JFloat(MillisThreshold) @@ <<"g">> :> JFloat(F(1000000000, 500, 1))
         @@ <<"h">> :> JFloat(Ratio(3, 2)) @@ <<"f">> :> JFloat(Ratio(1, 2500))
         @@ <<"k">> :> JStr(<<"1", "2">>) @@ <<"d">> :> JStr(CHOOSE text \in DOMAIN KnownDates : TRUE)
         @@ <<"s">> :> JStr(<<"x">>) @@ <<"n">> :> JNull)

\* the two sides of a difference
TimeOperands == { NowCall, <<"N", "O", "W", "(", ")">>, <<"a">>, <<"b">>, <<"e">>, <<"g">>, <<"h">>, <<"f">>, <<"k">>, <<"d">>,
                  <<"s">>, <<"n">>, <<"p">> }

\* evaluate_expression applied to left - right
DiffCall(left, right) ==
    /\ probe.op = "none"
    /\ probe' = [op |-> "diff", now |-> probe.now, left |-> left, right |-> right,
                 out |-> evaluate_expression(left \o <<" ", "-", " ">> \o right, TimeDoc)]
    /\ UNCHANGED engine_vars

\* the document arithmetic is evaluated against
MathDoc == JObj(<<"a">> :> JNum(7) @@ <<"n">> :> JNull)

\* operands: numbers, identifiers, groups, calls and broken operands
MathAtoms == { <<"2">>, <<"3">>, <<"0">>, <<"1", ".", "5">>, <<"a">>, <<"p">>, <<"(", "2", " ", "+", " ", "3", ")">>, <<"f", "(", "2", ")">>, <<"(", "2", " ", "+">>, <<".">> }

MathCoreAtoms == { <<"2">>, <<"3">>, <<"0">>, <<"a">>, <<"(", "2", " ", "+", " ", "3", ")">> }

MathSigns == { <<>>, <<"-">>, <<"+">>, <<"-", "-">> }

MathOps == { <<" ", "+", " ">>, <<"-", " ">>, <<"*">>, <<" ", "/">> }

MathTails == { <<>>, <<" ">>, <<" ", ")">>, <<" ", "2">> }

MathTerm(op, sign, atom) == [op |-> op, sign |-> sign, atom |-> atom]

\* expressions of one, two and three operands
MathShapes ==
    { [terms |-> <<MathTerm(<<>>, s, x)>>, tail |-> t] :
            s \in MathSigns, x \in MathAtoms \cup {NowCall}, t \in MathTails }
    \cup { [terms |-> <<MathTerm(<<>>, <<>>, x[1]), MathTerm(o, s, x[2])>>, tail |-> <<>>] :
            x \in MathAtoms \X MathAtoms, o \in MathOps, s \in MathSigns }
    \cup { [terms |-> <<MathTerm(<<>>, <<>>, x[1]), MathTerm(o[1], <<>>, x[2]),
                       MathTerm(o[2], <<>>, x[3])>>, tail |-> <<>>] :
            x \in MathCoreAtoms \X MathCoreAtoms \X MathCoreAtoms, o \in MathOps \X MathOps }

MathText(shape) ==
    Concat([i \in 1..Len(shape.terms) |->
                shape.terms[i].op \o shape.terms[i].sign \o shape.terms[i].atom]) \o shape.tail

\* evaluate_expression: the arithmetic evaluator applied to an expression
MathCall(shape) ==
    /\ probe.op = "none"
    /\ probe' = [op |-> "math", now |-> probe.now, terms |-> shape.terms, tail |-> shape.tail,
                 out |-> evaluate_math_expression(MathText(shape), MathDoc)]
    /\ UNCHANGED engine_vars

\* the whole duration of days, hours, minutes, seconds and milliseconds
Span(days, hours, minutes, seconds, millis) ==
    F(((days * 24 + hours) * 60 + minutes) * 60 + seconds, millis, 1)

\* signed millisecond durations around the unit boundaries
Durations ==
    LET spans == { Span(0, 0, 0, 0, 0), Span(0, 0, 0, 0, 1), Span(0, 0, 0, 1, 0),
                   Span(0, 0, 0, 1, 1), Span(0, 0, 0, 59, 999), Span(0, 0, 1, 0, 0),
                   Span(0, 1, 0, 0, 0), Span(0, 23, 59, 59, 999), Span(1, 0, 0, 0, 0),
                   Span(1, 0, 0, 0, 1), Span(2, 3, 15, 7, 0), Span(29, 0, 0, 0, 0),
                   Span(30, 0, 0, 0, 0), Span(45, 0, 0, 0, 0), Span(364, 0, 0, 0, 0),
                   Span(365, 0, 0, 0, 0), Span(400, 1, 1, 1, 1), Span(800, 0, 0, 0, 0),
                   Ratio(1, 2) }
    IN  spans \cup { NumNeg(x) : x \in spans }

\* format specs that are no duration token and no other format
UnknownTokens == { <<"W">>, <<"w", "e", "e", "k", "s">> }

\* render_placeholder: a duration formatted with a spec
DurationCall(d, token) ==
    /\ probe.op = "none"
    /\ probe' = [op |-> "duration", now |-> probe.now, d |-> d, token |-> token,
                 out |-> format_value_with_spec(JFloat(d), token)]
    /\ UNCHANGED engine_vars

\* the documents filters are applied to
FilterDocs ==
    { JObj(<<"m">> :> JStr(<<"s", "o", "n", "n", "e", "t">>) @@ <<"n">> :> JNum(7) @@ <<"q">> :> JStr(<<"(">>) @@ <<"z">> :> JNull),
      JObj(<<"k">> :> JBool(TRUE)),
      JStr(<<"s", "o", "n">>) }

\* filter paths: the root, a member, every member, and a text that is no path
FilterPaths == { <<"$">>, <<"$", ".", "m">>, <<"$", ".", "*">>, <<"m">> }

FilterKeywords == { None, Some(<<>>), Some(<<"s", "o", "n">>), Some(<<"s", "o", "n", "n", "e", "t">>), Some(<<"7">>), Some(<<"(">>) }

FilterRules ==
    {None} \cup { Some([object |-> o, mode |-> m, keyword |-> k]) :
                    o \in FilterPaths, m \in {"equals", "contains", "pattern"},
                    k \in FilterKeywords }

\* render_api_widget: the filter of a widget applied to the response data
FilterCall(rule, data) ==
    /\ probe.op = "none"
    /\ probe' = [op |-> "filter", now |-> probe.now, rule |-> rule, data |-> data,
                 out |-> passes_filter([BaseWidget EXCEPT !.filter = rule], data)]
    /\ UNCHANGED engine_vars

\* render_component_widgets: the gate applied to one widget under an
\* environment
GateCall(widget, e) ==
    /\ probe.op = "none"
    /\ probe' = [op |-> "gate", now |-> probe.now, widget |-> widget, env |-> e,
                 out |-> should_render_widget(widget) /\ check_detection(widget, e)]
    /\ UNCHANGED engine_vars

\* the terminal section, the style toggles and the detected capabilities
ForceFlags ==
    [force_text : BOOLEAN, force_nerd_font : BOOLEAN, force_emoji : BOOLEAN]

Toggles == {"auto", "true", "false"}

StyleToggles == [enable_nerd_font : Toggles, enable_emoji : Toggles]

Capabilities == [supports_nerd_font : BOOLEAN, supports_emoji : BOOLEAN]

\* widgets with three different icons, or with one of them empty
IconWidgets ==
    { [BaseWidget EXCEPT !.nerd_icon = n, !.emoji_icon = m, !.text_icon = t] :
        n \in {<<>>, <<"N">>}, m \in {<<>>, <<"*">>}, t \in {<<>>, <<"T">>} }

IconContents == { <<>>, <<"c">> }

\* compose_with_icon on a content, under a configuration and a terminal
IconCall(widget, content, term, forced, style) ==
    /\ probe.op = "none"
    /\ probe' = [op |-> "icon", now |-> probe.now, widget |-> widget,
                 content |-> content, term |-> term, forced |-> forced, style |-> style,
                 icon |-> select_widget_icon(
                              widget, term,
                              [config EXCEPT !.terminal = forced, !.style = style]),
                 out |-> compose_with_icon(
                             widget, content, term,
                             [config EXCEPT !.terminal = forced, !.style = style])]
    /\ UNCHANGED engine_vars

\* pieces of a content text: the escaped dollar, references to variable E
\* and to a name in lower case, and the characters they are made of
SubstPieces ==
    { EscapedDollar, <<"$", "{", "E", "}">>, <<"$", "{", "e", "}">>, <<"{", "E", "}">>, <<"$">>, <<"\\">>, DOLLAR_PLACEHOLDER }

MaxSubstPieces == 3

\* variable E unset, or holding a text, a reference, or an escaped dollar
SubstEnvs ==
    { EmptyMap, <<"E">> :> <<"1">>, <<"E">> :> <<"$", "{", "E", "}">>, <<"E">> :> EscapedDollar }

\* substitute_env on a text under an environment
SubstCall(pieces, e) ==
    /\ probe.op = "none"
    /\ probe' = [op |-> "subst", now |-> probe.now, input |-> Concat(pieces), env |-> e,
                 out |-> substitute_env(Concat(pieces), e)]
    /\ UNCHANGED engine_vars

\* documents with an array, objects, texts that are JSON documents (one of
\* them holding another) and texts that are not
ExtractDocs ==
    { JObj(<<"a">> :> JArr(<<JNum(7), JNum(8)>>)
           @@ <<"o">> :> JObj(<<"c">> :> JNum(3) @@ <<"0">> :> JNum(9))
           @@ <<"s">> :> JStr(<<"x">>)
           @@ <<"j">> :> JStr(<<"{", "\"", "c", "\"", ":", "3", "}">>)
           @@ <<"l">> :> JStr(<<"[", "7", ",", "8", "]">>)
           @@ <<"k">> :> JStr(<<"1", "2">>)
           @@ <<"n">> :> JNull
           @@ <<"e">> :> JStr(<<"{", "\"", "e", "\"", ":", "\"", "[", "5", "]", "\"", "}">>)),
      JArr(<<JObj(<<"c">> :> JNum(3))>>),
      JStr(<<"{", "\"", "c", "\"", ":", "3", "}">>) }

ExtractPaths ==
    { <<>>, <<"$">>, <<"a">>, <<"a", ".", "0">>, <<"a", ".", "1">>, <<"a", ".", "2">>, <<"a", "[", "0", "]">>, <<"a", "[", "1", "]">>, <<"a", "[", "2", "]">>, <<"a", "[", "x", "]">>,
      <<"a", ".", "c">>, <<"o">>, <<"o", ".", "c">>, <<"o", ".", "x">>, <<"o", ".", "0">>, <<"o", "[", "0", "]">>, <<"o", ".", "c", ".", "c">>, <<"s">>, <<"s", ".", "c">>, <<"s", ".", "0">>,
      <<"j">>, <<"j", ".", "c">>, <<"j", ".", "x">>, <<"j", ".", "0">>, <<"l">>, <<"l", ".", "0">>, <<"l", ".", "2">>, <<"l", "[", "0", "]">>, <<"k", ".", "c">>, <<"n", ".", "c">>,
      <<"e", ".", "e">>, <<"e", ".", "e", ".", "0">>, <<"e", ".", "e", ".", "1">>, <<"$", ".", "o", ".", "c">>, <<"o", ".", ".", "c">>, <<" ", "o", " ", ".", " ", "c", " ">>, <<"x">>, <<"x", "[", "0", "]">>,
      <<"0">>, <<"0", ".", "c">>, <<"1">>, <<"c">>, <<"c", ".", "c">>,
      <<"[", "0", "]">>, <<"a", "[", "+", "1", "]">>, <<"a", "[", "0", "]", "[", "1", "]">>, <<"a", "[", "1", "]", "x">>, <<"a", "]", "0", "[">>, <<"n", "o", "w", "(", ")">> }

\* extract_value on a path against a document
ExtractCall(path, data) ==
    /\ probe.op = "none"
    /\ probe' = [op |-> "extract", now |-> probe.now, path |-> path, data |-> data,
                 out |-> extract_value(path, data)]
    /\ UNCHANGED engine_vars

\* the characters of a preset: letters of components in either case, and
\* characters that name none
PresetChars == {"P", "p", "M", "b", "T", "U", "s", "-"}

MaxPreset == 3

\* parse_preset on a preset text
PresetCall(preset) ==
    /\ probe.op = "none"
    /\ probe' = [op |-> "preset", now |-> probe.now, preset |-> preset,
                 out |-> parse_preset(preset)]
    /\ UNCHANGED engine_vars

\* responses: a failed request, and two documents that differ in a field
\* outside the part the data path selects
ApiReplies ==
    { None,
      Some(JObj(<<"m">> :> JObj(<<"c">> :> JNum(3)) @@ <<"n">> :> JNum(7))),
      Some(JObj(<<"m">> :> JObj(<<"c">> :> JNum(3)) @@ <<"n">> :> JNum(8))) }

\* no data path, a member, every member, a member that is missing, and a
\* text that is no path
DataPaths == { None, Some(<<"$", ".", "m">>), Some(<<"$", ".", "*">>), Some(<<"$", ".", "x">>), Some(<<"m">>) }

\* no filter, a rule on a field of the whole response, and a rule on a
\* field of the selected part
ApiFilters ==
    { None,
      Some([object |-> <<"$", ".", "n">>, mode |-> "equals", keyword |-> Some(<<"7">>)]),
      Some([object |-> <<"$", ".", "c">>, mode |-> "equals", keyword |-> Some(<<"3">>)]) }

ApiTemplates == { None, Some(<<"{", "c", "}">>), Some(<<"{", "n", "}">>) }

ApiWidgets ==
    { [BaseWidget EXCEPT !.kind = "api", !.emoji_icon = <<"*">>,
                         !.api = Some([RelativeApi EXCEPT !.data_path = dp]),
                         !.filter = f, !.template = tp] :
        dp \in DataPaths, f \in ApiFilters, tp \in ApiTemplates }

\* render_api_widget on the outcome of its request
ApiCall(widget, response) ==
    /\ probe.op = "none"
    /\ probe' = [op |-> "api", now |-> probe.now, widget |-> widget, response |-> response,
                 out |-> render_api_widget(widget, response, terminal, config, env)]
    /\ UNCHANGED engine_vars

\* render_component_widgets, one iteration: the gate, the row check, the
\* resolution of the widget (the request of an API widget ends with the
\* response given for it) and the store.  st is the grid and the cache; cx
\* holds the arguments of the call and what the iteration reads.
iterate_widget(st, w, cx) ==
    Bind(cx.widgets[w], LAMBDA widget :
        IF ~should_render_widget(widget) \/ ~check_detection(widget, cx.env) THEN st
        ELSE IF widget.row = 0 \/ widget.row > cx.multiline_config.max_rows THEN st
        ELSE Bind(IF widget.kind = "static"
                  THEN Some(render_static_widget(widget, cx.terminal, cx.config, cx.env))
                  ELSE IF ~widget.api.some THEN None
                  ELSE IF ~resolve_url(widget.api.v, cx.env).ok THEN None
                  ELSE render_api_widget(widget, cx.responses[w], cx.terminal, cx.config,
                                         cx.env).out,
                  LAMBDA widget_output :
             Bind(StoreOutput(st.rows, st.cache, cache_key(cx.component, w), widget,
                              widget_output),
                  LAMBDA stored : [rows |-> stored.rows, cache |-> stored.cache])))

\* render_component_widgets with the widgets iterated in the given order
RECURSIVE render_component_widgets(_, _, _)
render_component_widgets(order, st, cx) ==
    IF Len(order) = 0 THEN st
    ELSE Bind(iterate_widget(st, Head(order), cx), LAMBDA next :
             render_component_widgets(Tail(order), next, cx))

\* the orders in which a hash map may yield the widgets with these names
IterationOrders(names) ==
    {order \in [1..Cardinality(names) -> names] : Range(order) = names}

\* the widgets descriptors of the component are built from
OrderWidgets ==
    { [BaseWidget EXCEPT !.content = Some(<<"h">>)],
      [BaseWidget EXCEPT !.content = Some(<<"$", "{", "E", "}">>), !.row = 2,
                         !.detection = Some([NoDetection EXCEPT !.env = Some(<<"E">>)])],
      [BaseWidget EXCEPT !.content = Some(<<"z">>), !.row = 3],
      [BaseWidget EXCEPT !.kind = "api", !.col = 1, !.api = Some(RelativeApi),
                         !.template = Some(<<"t", "{", "m", "}">>)],
      [BaseWidget EXCEPT !.kind = "api", !.row = 2, !.api = Some(RelativeApi),
                         !.filter = Some([object |-> PathM, mode |-> "equals",
                                          keyword |-> Some(<<"c">>)])] }

OrderNames == {"a", "b", "c"}

\* the outcome of the request of each widget, should it make one
OrderResponses ==
    { [w \in OrderNames |-> None],
      [w \in OrderNames |-> Some(JObj(<<"m">> :> JStr(<<"c">>)))],
      [w \in OrderNames |-> IF w = "b" THEN Some(JObj(<<"m">> :> JStr(<<"c">>))) ELSE None] }

\* the cache the call starts with: empty, or texts of an earlier call
OrderCaches ==
    { EmptyMap,
      [key \in {cache_key("usage", w) : w \in OrderNames} |-> <<"o">>] }

OrderCall(widgets, responses, e, cache) ==
    LET cx == [component |-> "usage", widgets |-> widgets, responses |-> responses,
               multiline_config |-> config.multiline.v, terminal |-> terminal,
               config |-> config, env |-> e]
        out(order) ==
            Bind(render_component_widgets(order, [rows |-> EmptyMap, cache |-> cache], cx),
                 LAMBDA after : [lines |-> GridRender(after.rows, config.multiline.v),
                                 cache |-> after.cache])
    IN  /\ probe' = [op |-> "order", now |-> probe.now, widgets |-> widgets,
                     responses |-> responses, env |-> e, cache |-> cache,
                     outs |-> [order \in IterationOrders(OrderNames) |-> out(order)]]
        /\ UNCHANGED engine_vars

\* one call, made from the initial state
NextEval ==
    \/ probe.op = "none" /\ \E widget \in GateWidgets : \E e \in ProbeEnvs : GateCall(widget, e)
    \/ probe.op = "none" /\ \E n \in 1..MaxPieces : \E pieces \in [1..n -> Pieces] : \E data \in TemplateDocs :
            TemplateCall(pieces, data)
    \/ probe.op = "none" /\ \E path \in CoercePaths : \E data \in TemplateDocs : CoerceCall(path, data)
    \/ probe.op = "none" /\ \E left, right \in TimeOperands : DiffCall(left, right)
    \/ probe.op = "none" /\ \E shape \in MathShapes : MathCall(shape)
    \/ probe.op = "none" /\ \E d \in Durations : \E token \in TimeFormats \cup UnknownTokens : DurationCall(d, token)
    \/ probe.op = "none" /\ \E rule \in FilterRules : \E data \in FilterDocs : FilterCall(rule, data)
    \/ probe.op = "none" /\ \E widget \in IconWidgets : \E content \in IconContents : \E term \in Capabilities :
            \E forced \in ForceFlags : \E style \in StyleToggles :
                IconCall(widget, content, term, forced, style)
    \/ probe.op = "none" /\ \E n \in 1..MaxSubstPieces : \E pieces \in [1..n -> SubstPieces] : \E e \in SubstEnvs :
            SubstCall(pieces, e)
    \/ probe.op = "none" /\ \E path \in ExtractPaths : \E data \in ExtractDocs : ExtractCall(path, data)
    \/ probe.op = "none" /\ \E n \in 0..MaxPreset : \E preset \in [1..n -> PresetChars] : PresetCall(preset)
    \/ probe.op = "none" /\ \E widget \in ApiWidgets : \E response \in ApiReplies : ApiCall(widget, response)
    \/ probe.op = "none" /\ \E widgets \in [OrderNames -> OrderWidgets] :
          \E responses \in OrderResponses : \E e \in {EmptyMap, <<"E">> :> <<"1">>} :
             \E cache \in OrderCaches : OrderCall(widgets, responses, e, cache)

Eval == InitEval /\ [][NextEval]_vars

(***************************************************************************)
(* Properties of the functions                                             *)
(***************************************************************************)

\* s contains p at some position
HasSubstring(s, p) == \E i \in 1..(Len(s) - Len(p) + 1) : SubSeq(s, i, i + Len(p) - 1) = p

\* a detection table that names no variable checks nothing
HasRule(widget) == widget.detection.some /\ widget.detection.v.env.some

\* the rule of the widget holds for the environment: the variable is set and
\* every condition the rule configures holds for its value
RuleHolds(widget) ==
    LET rule == widget.detection.v
    IN  /\ rule.env.v \in DOMAIN probe.env
        /\ rule.equals.some => probe.env[rule.env.v] = rule.equals.v
        /\ rule.contains.some => HasSubstring(probe.env[rule.env.v], rule.contains.v)
        /\ rule.pattern.some =>
              /\ RegexCompiles(rule.pattern.v)
              /\ RegexIsMatch(rule.pattern.v, probe.env[rule.env.v])

C12_ForceOverridesDetection ==
    (probe.op = "gate" /\ probe.widget.force = Some(TRUE)) => probe.out

\* a widget with force = true is skipped because its variable is not set
C12_Witness ==
    /\ probe.op = "gate"
    /\ probe.widget.force = Some(TRUE)
    /\ HasRule(probe.widget)
    /\ DOMAIN probe.env = {}
    /\ ~probe.out


\* what the claim expects in place of one piece of a template
PieceOutput(piece, data) ==
    IF piece \in Literals THEN piece
    ELSE LET r == render_placeholder(SubSeq(piece, 2, Len(piece) - 1), data)
         IN  IF r.ok THEN r.value ELSE piece

Unresolved == ~extract_value(probe.path, probe.data).ok

\* the path resolves to null, or to a value that is not numeric: an object,
\* or a string that is neither a number nor a date
ResolvesNonNumeric ==
    LET r == extract_value(probe.path, probe.data)
    IN  /\ r.ok
        /\ \/ r.value.t \in {"null", "obj"}
           \/ r.value.t = "str" /\ ~ParseF64(Trim(r.value.s)).some
                                /\ ~parse_date_string(r.value.s).some

\* C14: a path that does not resolve, or resolves to null or to a value that
\* is not numeric, counts as 0 as the operand of an arithmetic expression,
\* whose evaluation does not fail; as a bare placeholder the path that does
\* not resolve fails, and the placeholder is echoed.
C14_CoercionModes ==
    probe.op = "coerce" =>
        /\ probe.sum.ok
        /\ (Unresolved \/ ResolvesNonNumeric) =>
                /\ probe.sum.value = JFloat(FromInt(1))
                /\ probe.operand = <<"1", ".", "0">>
        /\ Unresolved => probe.bare = <<"{">> \o probe.path \o <<"}">>

\* the path p is in no document of the model
C14_Witness ==
    /\ probe.op = "coerce"
    /\ probe.path = <<"p">>
    /\ probe.data.o[<<"a">>] = JNum(7)
    /\ probe.operand = <<"1", ".", "0">>
    /\ probe.bare = <<"{", "p", "}">>

\* the operand is now() or a path of TimeDoc whose value is a number, the
\* text of a number or the text of a date
IsTimeOperand(operand) ==
    \/ operand \in {NowCall, <<"N", "O", "W", "(", ")">>}
    \/ /\ operand \in DOMAIN TimeDoc.o
       /\ \/ TimeDoc.o[operand].t \in {"num", "float"}
          \/ TimeDoc.o[operand].t = "str" /\ TimeDoc.o[operand].s \in {<<"1", "2">>} \cup DOMAIN KnownDates

\* the number v as milliseconds: v itself from 10^12 on, v * 1000 below
AsMillis(v) == IF NumLess(v, F(1000000000, 0, 1)) THEN NumMul(v, FromInt(1000)) ELSE v

\* the milliseconds of a time operand, fractions of a millisecond kept
ExactMs(operand) ==
    IF operand \in {NowCall, <<"N", "O", "W", "(", ")">>} THEN probe.now
    ELSE LET value == TimeDoc.o[operand]
         IN  CASE value.t = "num" -> AsMillis(FromInt(value.n))
               [] value.t = "float" -> AsMillis(value.x)
               [] value.s = <<"1", "2">> -> AsMillis(FromInt(12))
               [] OTHER -> KnownDates[value.s]

Fails == [ok |-> FALSE]
Gives(v) == [ok |-> TRUE, v |-> v]

\* the value of an operand: a number, the lenient value of an identifier (7
\* for a, 0 for the unresolved p), a group, now(); a call of another
\* function, an unclosed group and a lone dot fail
AtomOutcome(atom) ==
    CASE atom = <<"2">> -> Gives(FromInt(2))
      [] atom = <<"3">> -> Gives(FromInt(3))
      [] atom = <<"0">> -> Gives(FromInt(0))
      [] atom = <<"1", ".", "5">> -> Gives(Ratio(3, 2))
      [] atom = <<"a">> -> Gives(FromInt(7))
      [] atom = <<"p">> -> Gives(FromInt(0))
      [] atom = <<"(", "2", " ", "+", " ", "3", ")">> -> Gives(FromInt(5))
      [] atom = NowCall -> Gives(probe.now)
      [] OTHER -> Fails

\* a factor with its signs; repeated tells whether a sign may follow a sign
FactorOutcome(term, repeated) ==
    LET v == AtomOutcome(term.atom)
    IN  IF ~v.ok THEN Fails
        ELSE CASE term.sign = <<>> -> v
               [] term.sign = <<"+">> -> v
               [] term.sign = <<"-">> -> Gives(NumNeg(v.v))
               [] term.sign = <<"-", "-">> -> IF repeated THEN v ELSE Fails

Operator(term) == CHOOSE c \in {"+", "-", "*", "/"} : c \in Range(term.op)

BinaryOutcome(c, l, r) ==
    IF ~l.ok \/ ~r.ok THEN Fails
    ELSE CASE c = "+" -> Gives(NumAdd(l.v, r.v))
           [] c = "-" -> Gives(NumSub(l.v, r.v))
           [] c = "*" -> Gives(NumMul(l.v, r.v))
           [] c = "/" -> IF r.v = FromInt(0) THEN Fails ELSE Gives(NumDiv(l.v, r.v))

\* term := factor (('*'|'/') factor)*, from the left
RECURSIVE TermOutcome(_, _)
TermOutcome(terms, repeated) ==
    IF Len(terms) = 1 THEN FactorOutcome(terms[1], repeated)
    ELSE BinaryOutcome(Operator(terms[Len(terms)]),
                       TermOutcome(SubSeq(terms, 1, Len(terms) - 1), repeated),
                       FactorOutcome(terms[Len(terms)], repeated))

\* expr := term (('+'|'-') term)*, from the left
RECURSIVE ExprOutcome(_, _)
ExprOutcome(terms, repeated) ==
    LET adds == {i \in 2..Len(terms) : Operator(terms[i]) \in {"+", "-"}}
    IN  IF adds = {} THEN TermOutcome(terms, repeated)
        ELSE LET i == CHOOSE x \in adds : \A y \in adds : y <= x
             IN  BinaryOutcome(Operator(terms[i]),
                               ExprOutcome(SubSeq(terms, 1, i - 1), repeated),
                               TermOutcome(SubSeq(terms, i, Len(terms)), repeated))

\* characters other than blanks after the expression fail it
Outcome(repeated) ==
    IF probe.tail \notin {<<>>, <<" ">>} THEN Fails ELSE ExprOutcome(probe.terms, repeated)

SameOutcome(expected) ==
    /\ probe.out.ok = expected.ok
    /\ expected.ok => probe.out.value = expected.v

UnitSeconds(token) ==
    CASE token \in {<<"Y">>, <<"y", "e", "a", "r", "s">>} -> 365 * 24 * 60 * 60
      [] token \in {<<"M">>, <<"m", "o", "n", "t", "h", "s">>} -> 30 * 24 * 60 * 60
      [] token \in {<<"D">>, <<"d", "a", "y", "s">>} -> 24 * 60 * 60
      [] token \in {<<"H">>, <<"h", "o", "u", "r", "s">>} -> 60 * 60
      [] token \in {<<"m">>, <<"m", "i", "n", "u", "t", "e", "s">>} -> 60
      [] token \in {<<"S">>, <<"s", "e", "c", "o", "n", "d", "s">>} -> 1

SingleUnitTokens ==
    { <<"Y">>, <<"y", "e", "a", "r", "s">>, <<"M">>, <<"m", "o", "n", "t", "h", "s">>, <<"D">>, <<"d", "a", "y", "s">>,
      <<"H">>, <<"h", "o", "u", "r", "s">>, <<"m">>, <<"m", "i", "n", "u", "t", "e", "s">>, <<"S">>, <<"s", "e", "c", "o", "n", "d", "s">> }

\* ceil(|d| / unit) for a unit of so many seconds
CeilUnits(d, seconds) ==
    LET up == NumCeil(NumAbs(d))
    IN  IF up.u = 0 THEN (up.k + seconds - 1) \div seconds ELSE (up.k \div seconds) + 1

\* the text of the signed integer sign(d) * n
SignedText(d, n) == IF IsNegative(d) /\ n > 0 THEN <<"-">> \o NatToString(n) ELSE NatToString(n)

\* C17: for every single-unit duration token and every signed millisecond
\* duration d the rendered text is the integer sign(d) * ceil(|d| / unit),
\* the unit being 365 days, 30 days, 1 day, 1 hour, 1 minute or 1 second.
C17_SingleUnitCeiling ==
    (probe.op = "duration" /\ probe.token \in SingleUnitTokens) =>
        probe.out = Ok(SignedText(probe.d, CeilUnits(probe.d, UnitSeconds(probe.token))))

\* one day rendered in years is 0, and 45 days rendered in months is 1
C17_Witness ==
    /\ probe.op = "duration"
    /\ \/ probe.token = <<"Y">> /\ probe.d = Span(1, 0, 0, 0, 0) /\ probe.out = Ok(<<"0">>)
       \/ probe.token = <<"m", "o", "n", "t", "h", "s">> /\ probe.d = Span(45, 0, 0, 0, 0) /\ probe.out = Ok(<<"1">>)

\* the fields of the successive floor decomposition of a whole number of
\* seconds, for units given in seconds from the largest to the smallest
RECURSIVE FloorFields(_, _)
FloorFields(seconds, units) ==
    IF Len(units) = 0 THEN <<>>
    ELSE <<seconds \div Head(units)>> \o FloorFields(seconds % Head(units), Tail(units))

\* the units of a multi-unit token, in seconds, and the labels of its fields
TokenUnits(token) ==
    CASE token = <<"Y", "M", "D">> -> <<365 * 24 * 60 * 60, 30 * 24 * 60 * 60, 24 * 60 * 60>>
      [] token = <<"D", "H", "m">> -> <<24 * 60 * 60, 60 * 60, 60>>
      [] token = <<"H", "m", "S">> -> <<60 * 60, 60, 1>>
      [] token = <<"m", "S">>  -> <<60, 1>>
      [] token = <<"H", "m">>  -> <<60 * 60, 60>>

TokenLabels(token) ==
    CASE token = <<"Y", "M", "D">> -> <<LabelYear, LabelMonth, LabelDay>>
      [] token = <<"D", "H", "m">> -> <<LabelDay, LabelHour, LabelMinute>>
      [] token = <<"H", "m", "S">> -> <<LabelHour, LabelMinute, LabelSecond>>
      [] token = <<"m", "S">>  -> <<LabelMinute, LabelSecond>>
      [] token = <<"H", "m">>  -> <<LabelHour, LabelMinute>>

MultiUnitTokens == { <<"Y", "M", "D">>, <<"D", "H", "m">>, <<"H", "m", "S">>, <<"m", "S">>, <<"H", "m">> }

\* the composite text of the decomposition of d for a token
Decomposed(d, token) ==
    LET fields == FloorFields(NumFloor(NumAbs(d)).k, TokenUnits(token))
        text == Concat([i \in 1..Len(fields) |-> NatToString(fields[i]) \o TokenLabels(token)[i]])
    IN  IF IsNegative(d) THEN <<"-">> \o text ELSE text

\* C18: for every multi-unit duration token the rendered fields are the
\* successive floor decomposition of |d|: the first field is floor(|d| / its
\* unit), each following field floor(remainder / its unit) of what the fields
\* before it left over, with 365-day years, 30-day months, 24-hour days,
\* 60-minute hours and 60-second minutes; a negative duration is prefixed
\* with '-'.
C18_SuccessiveFloors ==
    (probe.op = "duration" /\ probe.token \in MultiUnitTokens) =>
        probe.out = Ok(Decomposed(probe.d, probe.token))

\* 365 days render as 1 year, 0 months and 5 days
C18_Witness ==
    /\ probe.op = "duration"
    /\ probe.token = <<"Y", "M", "D">>
    /\ probe.d = Span(365, 0, 0, 0, 0)
    /\ probe.out = Ok(<<"1">> \o LabelYear \o <<"0">> \o LabelMonth \o <<"5">> \o LabelDay)

\* C19: a placeholder whose format spec is an unrecognized duration token is
\* rendered by the rule of D, sign(d) * ceil(|d| / 1 day); it neither fails
\* nor falls through to the default text of the value.
C19_UnknownTokenAsDays ==
    (probe.op = "duration" /\ probe.token \in UnknownTokens) =>
        probe.out = Ok(SignedText(probe.d, CeilUnits(probe.d, 24 * 60 * 60)))

\* two days, three hours, fifteen minutes and seven seconds with the spec W
\* render as the number of milliseconds
C19_Witness ==
    /\ probe.op = "duration"
    /\ probe.token = <<"W">>
    /\ probe.d = Span(2, 3, 15, 7, 0)
    /\ probe.out = Ok(<<"1", "8", "4", "5", "0", "7", "0", "0", "0">>)

\* the path of the rule is one JSON-path accepts
ValidPath(path) == path \in { <<"$">>, <<"$", ".", "m">>, <<"$", ".", "*">> }

\* the values the path selects in the document
Selected(path, data) ==
    CASE path = <<"$">> -> {data}
      [] path = <<"$", ".", "m">> -> IF data.t = "obj" /\ <<"m">> \in DOMAIN data.o THEN {data.o[<<"m">>]} ELSE {}
      [] path = <<"$", ".", "*">> -> IF data.t = "obj" THEN Range(data.o) ELSE {}

\* the string form of a value: the text of a string, nothing for null, the
\* JSON text otherwise
StringForm(value) ==
    CASE value.t = "str" -> value.s
      [] value.t = "null" -> <<>>
      [] OTHER -> JsonText(value)

\* the keyword is a regular expression
WellFormed(keyword) == keyword # <<"(">>

KeywordHolds(mode, keyword, text) ==
    CASE mode = "equals" -> text = keyword
      [] mode = "contains" -> HasSubstring(text, keyword)
      [] mode = "pattern" -> WellFormed(keyword) /\ HasSubstring(text, keyword)

\* C20: a widget with no filter rule passes.  A rule with a keyword passes
\* exactly when its path selects at least one value and the string form of
\* some selected value equals the keyword, contains it, or matches it as a
\* regular expression, according to the mode; an empty selection, a text
\* that is no JSON-path and a malformed regular expression fail the filter.
C20_FilterDecision ==
    probe.op = "filter" =>
        /\ ~probe.rule.some => probe.out
        /\ (probe.rule.some /\ probe.rule.v.keyword.some) =>
              LET rule == probe.rule.v
              IN  probe.out <=>
                      /\ ValidPath(rule.object)
                      /\ \E value \in Selected(rule.object, probe.data) :
                            KeywordHolds(rule.mode, rule.keyword.v, StringForm(value))

\* of the four values that $.* selects only the number has the string form 7
C20_Witness ==
    /\ probe.op = "filter"
    /\ probe.rule = Some([object |-> <<"$", ".", "*">>, mode |-> "equals", keyword |-> Some(<<"7">>)])
    /\ probe.data.t = "obj"
    /\ <<"n">> \in DOMAIN probe.data.o
    /\ probe.out

\* the rules of the icon choice in their order, each a condition with the
\* icon it gives; the last one always applies
IconRules(p) ==
    << <<p.forced.force_text, p.widget.text_icon>>,
       <<p.forced.force_nerd_font, p.widget.nerd_icon>>,
       <<p.forced.force_emoji, p.widget.emoji_icon>>,
       <<p.term.supports_nerd_font /\ p.style.enable_nerd_font # "false",
         p.widget.nerd_icon>>,
       <<p.term.supports_emoji /\ p.style.enable_emoji # "false", p.widget.emoji_icon>>,
       <<TRUE, p.widget.text_icon>> >>

FirstRule(rules) == CHOOSE i \in 1..Len(rules) : rules[i][1] /\ \A j \in 1..(i - 1) : ~rules[j][1]

\* C21: the widget icon is the icon of the first rule that applies, in the
\* order force-text, force-nerd-font, force-emoji, nerd font supported and
\* enabled, emoji supported and enabled, text; the rendered text is the
\* icon, a space and the content when the icon is not empty, and the
\* content alone when it is.
C21_IconChoice ==
    probe.op = "icon" =>
        /\ probe.icon = IconRules(probe)[FirstRule(IconRules(probe))][2]
        /\ probe.icon # <<>> => probe.out = probe.icon \o <<" ">> \o probe.content
        /\ probe.icon = <<>> => probe.out = probe.content

\* emoji forced on a terminal with the nerd font, the widget having no
\* emoji icon: the fourth rule would give the nerd icon, the third gives
\* the empty one, and the content stands alone
C21_Witness ==
    /\ probe.op = "icon"
    /\ ~probe.forced.force_text /\ ~probe.forced.force_nerd_font /\ probe.forced.force_emoji
    /\ probe.term.supports_nerd_font /\ probe.style.enable_nerd_font = "auto"
    /\ probe.widget.nerd_icon = <<"N">> /\ probe.widget.emoji_icon = <<>>
    /\ probe.content = <<"c">>
    /\ probe.out = <<"c">>

\* the length of the reference ${NAME} that s begins with, 0 when it begins
\* with none
RefLen(s) ==
    IF Len(s) >= 4 /\ s[1] = "$" /\ s[2] = "{"
       /\ \E k \in 4..Len(s) :
             s[k] = "}" /\ \A j \in 3..(k - 1) : s[j] \in EnvNameChars
    THEN CHOOSE k \in 4..Len(s) : s[k] = "}" /\ \A j \in 3..(k - 1) : s[j] \in EnvNameChars
    ELSE 0

\* one pass over s from the left: an escaped dollar gives a dollar, a
\* reference gives the value of its variable, both without being read
\* again, and any other character gives itself
RECURSIVE Expanded(_, _)
Expanded(s, e) ==
    IF Len(s) = 0 THEN <<>>
    ELSE IF StartsWith(s, EscapedDollar) THEN <<"$">> \o Expanded(From(s, 3), e)
    ELSE IF RefLen(s) > 0
         THEN (IF SubSeq(s, 3, RefLen(s) - 1) \in DOMAIN e
               THEN e[SubSeq(s, 3, RefLen(s) - 1)] ELSE <<>>)
              \o Expanded(From(s, RefLen(s) + 1), e)
    ELSE <<Head(s)>> \o Expanded(Tail(s), e)

\* C22: substitute_env replaces every ${NAME} by the value of variable NAME,
\* the empty text when it is unset, and every escaped dollar by a dollar
\* that never starts a substitution, so that an escaped dollar before {...}
\* gives ${...} unexpanded; the two rules do not interfere in one input.
\* Stated for the texts that do not hold the placeholder the function uses
\* internally.
C22_Substitution ==
    (probe.op = "subst" /\ ~Contains(probe.input, DOLLAR_PLACEHOLDER)) =>
        probe.out = Expanded(probe.input, probe.env)

\* an escaped dollar before {E}, then a reference to E, with E set
C22_Witness ==
    /\ probe.op = "subst"
    /\ probe.input = <<"\\", "$", "{", "E", "}", "$", "{", "E", "}">>
    /\ probe.env = <<"E">> :> <<"1">>
    /\ probe.out = <<"$", "{", "E", "}", "1">>

\* the segments of a path that name a step: those that are neither blank
\* nor the root sign
IsStep(raw) == Trim(raw) # <<>> /\ Trim(raw) # <<"$">>

StepsOf(path) ==
    IF path = <<>> THEN <<>>
    ELSE [i \in 1..Len(SelectSeq(SplitDots(path), IsStep)) |->
              Trim(SelectSeq(SplitDots(path), IsStep)[i])]

NameChars == AsciiLetters \cup Range(Digits) \cup {"_"}

IsNumeral(s) == s # <<>> /\ \A i \in 1..Len(s) : s[i] \in Range(Digits)

IsName(s) == s # <<>> /\ ~IsNumeral(s) /\ \A i \in 1..Len(s) : s[i] \in NameChars

\* name[idx]: the position of the bracket, 0 when the segment is of another kind
BracketAt(s) ==
    IF \E k \in 2..(Len(s) - 2) :
          /\ s[k] = "[" /\ s[Len(s)] = "]"
          /\ IsName(SubSeq(s, 1, k - 1)) \/ IsNumeral(SubSeq(s, 1, k - 1))
          /\ IsNumeral(SubSeq(s, k + 1, Len(s) - 1))
    THEN CHOOSE k \in 2..(Len(s) - 2) : s[k] = "["
    ELSE 0

\* the three kinds of segment of a path
Described(path) ==
    \A i \in 1..Len(StepsOf(path)) :
        \/ IsName(StepsOf(path)[i])
        \/ IsNumeral(StepsOf(path)[i])
        \/ BracketAt(StepsOf(path)[i]) > 0

\* the values whose JSON text a string of the model may hold
Encodable == Range(KnownJson) \cup {JNum(n) : n \in 0..20}

\* a string that is the JSON text of a value stands for that value
Parsed(v) ==
    IF v.t = "str" /\ \E w \in Encodable : JsonText(w) = v.s
    THEN CHOOSE w \in Encodable : JsonText(w) = v.s
    ELSE v

Member(v, name) ==
    IF v.t = "obj" /\ name \in DOMAIN v.o THEN Some(v.o[name]) ELSE None

Element(v, idx) ==
    IF v.t = "arr" /\ idx < Len(v.a) THEN Some(v.a[idx + 1]) ELSE None

\* one step from a value: a field of an object, an element of an array, or
\* an element of the array that a field holds
StepFrom(v, segment) ==
    IF IsNumeral(segment) THEN Element(v, DigitsToNat(segment))
    ELSE IF BracketAt(segment) > 0
    THEN LET field == Member(v, SubSeq(segment, 1, BracketAt(segment) - 1))
         IN  IF field.some
             THEN Element(field.v, DigitsToNat(SubSeq(segment, BracketAt(segment) + 1,
                                                      Len(segment) - 1)))
             ELSE None
    ELSE Member(v, segment)

RECURSIVE Follow(_, _)
Follow(steps, v) ==
    IF Len(steps) = 0 THEN Some(v)
    ELSE LET next == StepFrom(Parsed(v), Head(steps))
         IN  IF next.some THEN Follow(Tail(steps), next.v) ELSE None

\* C23: strict extraction walks the segments of the path from left to right;
\* before each step a value that is a JSON-encoded string is replaced by
\* the value it encodes; a field needs an object holding it, a numeral or
\* name[idx] needs an array with that index in range; a missing field, an
\* index out of range or a value of the wrong type is a failure, and the
\* empty path gives the whole document.
C23_StrictExtraction ==
    (probe.op = "extract" /\ Described(probe.path)) =>
        /\ probe.out.ok <=> Follow(StepsOf(probe.path), probe.data).some
        /\ probe.out.ok => probe.out.value = Follow(StepsOf(probe.path), probe.data).v
        /\ probe.path = <<>> => probe.out = [ok |-> TRUE, value |-> probe.data]

\* a text holding an object whose field holds the text of an array
C23_Witness ==
    /\ probe.op = "extract"
    /\ probe.path = <<"e", ".", "e", ".", "0">>
    /\ probe.data.t = "obj"
    /\ probe.out = [ok |-> TRUE, value |-> JNum(5)]

\* the letters of the components
PresetLetters ==
    [project |-> {"P", "p"}, model |-> {"M", "m"}, branch |-> {"B", "b"},
     tokens |-> {"T", "t"}, usage |-> {"U", "u"}, status |-> {"S", "s"}]

\* the positions of the preset that hold the letter of a component
Occurrences(preset, name) == {i \in 1..Len(preset) : preset[i] \in PresetLetters[name]}

FirstOccurrence(preset, name) ==
    CHOOSE i \in Occurrences(preset, name) : \A j \in Occurrences(preset, name) : i <= j

\* C24: parse_preset gives the components whose letters (P, M, B, T, U, S,
\* in either case) occur in the preset, each once, in the order in which
\* the letters first occur; other characters are ignored.
C24_PresetOrder ==
    probe.op = "preset" =>
        /\ \A i, j \in 1..Len(probe.out) : probe.out[i] = probe.out[j] => i = j
        /\ \A name \in DOMAIN PresetLetters :
              (name \in Range(probe.out)) <=> Occurrences(probe.preset, name) # {}
        /\ Range(probe.out) \subseteq DOMAIN PresetLetters
        /\ \A i, j \in 1..Len(probe.out) :
              i < j => FirstOccurrence(probe.preset, probe.out[i])
                          < FirstOccurrence(probe.preset, probe.out[j])

\* a letter in both cases around another one
C24_Witness ==
    /\ probe.op = "preset"
    /\ probe.preset = <<"p", "M", "P">>
    /\ probe.out = <<"project", "model">>

\* the matches of the data path of the probed widget in its response
PathMatches ==
    jsonpath_select(probe.response.v, probe.widget.api.v.data_path.v)

\* the value the text is made from: the first match, or the whole response
TemplateSubject ==
    IF probe.widget.api.v.data_path.some THEN PathMatches.values[1] ELSE probe.response.v

NoMatch ==
    probe.widget.api.v.data_path.some /\ (~PathMatches.ok \/ PathMatches.values = <<>>)

\* C25: with a data path, the filter is evaluated against the whole response
\* and the template, or the stringification, is applied to the first match
\* of the path; without one both use the whole response.  A data path with
\* no match is a failure, whatever the filter would say.
C25_FilterOnWholeResponse ==
    (probe.op = "api" /\ probe.response.some) =>
        IF NoMatch THEN probe.out.err /\ ~probe.out.out.some
        ELSE /\ ~probe.out.err
             /\ probe.out.out.some <=> passes_filter(probe.widget, probe.response.v)
             /\ probe.out.out.some =>
                   probe.out.out.v =
                      <<"*", " ">> \o
                      (IF probe.widget.template.some
                       THEN render_template(probe.widget.template.v, TemplateSubject)
                       ELSE JsonText(TemplateSubject))

\* the rule holds for field n of the response, which the selected member
\* does not have, and the template reads field c of the member
C25_Witness ==
    /\ probe.op = "api"
    /\ probe.response.some
    /\ probe.widget.api.v.data_path = Some(<<"$", ".", "m">>)
    /\ probe.widget.filter.some /\ probe.widget.filter.v.object = <<"$", ".", "n">>
    /\ probe.widget.template = Some(<<"{", "c", "}">>)
    /\ probe.out.out = Some(<<"*", " ", "3">>)

(***************************************************************************)
(* The render call under a scheduler                                       *)
(***************************************************************************)

\* a step of the running render call: the code between two awaits, or the
\* end of the awaited request (it returns, fails or times out)
RenderStep == pc # "idle" /\ Next

\* the runtime polls the render call until it returns, and every request ends
LiveSpec == Spec /\ WF_vars(RenderStep)

\* the step issues the request of an API widget
Issues == ev'.kind = "request"

\* the widget of the step before has its output in the grid and in the cache
PrecedingWritten ==
    (ev.kind \in StoreKinds /\ ev.output.some)
        => /\ ev.key \in DOMAIN widget_cache
           /\ widget_cache[ev.key] = ev.output.v
           /\ Cell(grid, ev.row, ev.col) = ev.output

\* every text this render call placed so far is in the grid, unless a later
\* widget of the call placed another one on the same cell
PlacedInGrid ==
    \A cell \in DOMAIN cycle.last : Cell(grid, cell[1], cell[2]) = Some(cycle.last[cell])

\* one step of the iteration: a request is issued between two widgets and
\* writes nothing; while it is outstanding the only step is its own end
OneAtATime ==
    /\ Issues => /\ pc = "widgets" /\ current = ""
                 /\ pc' = "await" /\ current' \in todo
                 /\ UNCHANGED <<grid, widget_cache, todo>>
                 /\ PrecedingWritten
                 /\ PlacedInGrid
    /\ current # "" => /\ pc = "await" /\ pc' = "widgets" /\ current' = ""
                       /\ todo' = todo \ {current}
                       /\ ev'.kind \in StoreKinds
                       /\ ev'.key = cache_key(component_name, current)
    /\ (pc \in {"widgets", "await"} /\ todo' # todo)
            => \E w \in todo : todo' = todo \ {w} /\ <<comp_idx, w>> \in cycle'.visited

\* the render call has returned a result
Returned == pc = "idle" /\ result.some /\ ev.kind \in {"finish", "disabled", "load_failed"}

\* C26: widgets are resolved one at a time: a request is issued only when no
\* other is outstanding and the output of the widget before it is in the grid
\* and the cache, nothing else happens until the request has ended, and, the
\* render call being polled and every request ending, a render call that has
\* started returns a result.
C26_OneAtATime == [][OneAtATime]_vars /\ ((pc # "idle") ~> Returned)

\* a request is outstanding after another widget of the component has placed
\* its text
C26_Witness ==
    /\ pc = "await"
    /\ \E v \in DOMAIN component_config :
          /\ <<comp_idx, v>> \in cycle.visited
          /\ <<component_config[v].row, component_config[v].col>> \in DOMAIN cycle.last

(***************************************************************************)
(* The widget cache over render calls and configuration updates            *)
(***************************************************************************)

\* the step resolved the widget with this cache key to a text
ResolvesTo(key) == ev'.kind \in StoreKinds /\ ev'.output.some /\ ev'.key = key

\* the keys the engine can form: component name, "::", widget name
CacheKeys ==
    UNION { { cache_key(c, w) : w \in DOMAIN doc } : c \in {"usage"}, doc \in UsageDocs }
    \cup UNION { { cache_key(c, w) : w \in DOMAIN doc } : c \in {"status"}, doc \in StatusDocs }

\* one step seen from the cache: the entry of a key becomes the text its
\* widget resolves to in the step, and is otherwise kept, unless the step is
\* update_config, which removes every entry
CacheStep ==
    /\ \A key \in CacheKeys :
          IF ResolvesTo(key)
          THEN key \in DOMAIN widget_cache' /\ widget_cache'[key] = ev'.output.v
          ELSE IF ev'.kind = "update_config"
          THEN key \notin DOMAIN widget_cache'
          ELSE /\ (key \in DOMAIN widget_cache) = (key \in DOMAIN widget_cache')
               /\ key \in DOMAIN widget_cache => widget_cache'[key] = widget_cache[key]
    /\ ev'.kind \in {"gate_skip", "row_skip"} \cup NoContentKinds
            => widget_cache' = widget_cache

\* C27: every key of the widget cache is a component name, "::" and a widget
\* name; the entry of a key is written exactly when its widget resolves to a
\* text, with that text, so it holds the text the widget resolved to last
\* since the last update_config; a step in which the widget is gate-skipped,
\* out of row range or without content leaves the cache as it was; entries
\* disappear only in update_config, which removes them all.
C27_CacheHoldsLastText == [](DOMAIN widget_cache \subseteq CacheKeys) /\ [][CacheStep]_vars

\* in a second render call a widget with a cached text ends without content
\* and its entry is still the text of the call before
C27_Witness ==
    /\ renders = 2
    /\ ev.kind \in NoContentKinds
    /\ ev.had
    /\ ev.key \in DOMAIN widget_cache
    /\ widget_cache[ev.key] = ev.prev
    /\ since_update = NoUpdate

(***************************************************************************)
(* Widgets whose row lies outside the grid                                 *)
(***************************************************************************)

\* the row of the widget is 0 or beyond max_rows of the running render call
RowOutside(widget) == widget.row = 0 \/ widget.row > multiline_config.max_rows

\* the step is the iteration's step on widget w of the current component
StepOn(w) == pc = "widgets" /\ w \in todo /\ ev'.key = cache_key(component_name, w)

\* a step on a widget that passes the gate and whose row is outside the grid
\* is the skip: nothing is resolved or requested, grid and cache are kept;
\* and no request is ever issued for a row outside the grid
RowSkipFrame ==
    /\ \A w \in DOMAIN component_config :
          ( /\ StepOn(w)
            /\ should_render_widget(component_config[w])
            /\ check_detection(component_config[w], env)
            /\ RowOutside(component_config[w]) )
          => /\ ev'.kind = "row_skip"
             /\ ev'.output = None
             /\ ~ev'.logged
             /\ pc' = "widgets"
             /\ current' = ""
             /\ todo' = todo \ {w}
             /\ UNCHANGED <<grid, widget_cache>>
    /\ ev'.kind = "request"
            => ev'.row >= 1 /\ ev'.row <= multiline_config.max_rows

\* C28: the step of the iteration on a widget that passes the gate and has
\* row 0 or a row greater than max_rows issues no request, resolves nothing
\* and leaves the grid and the widget cache unchanged, whatever the widget
\* would have resolved to; requests are issued for rows of the grid only.
C28_RowSkipFrame == [][RowSkipFrame]_vars

\* the skipped widget has row 0 and is an API widget whose URL resolves (a
\* request would have been issued), and an earlier widget has placed a text
C28_Witness ==
    /\ ev.kind = "row_skip"
    /\ ev.row = 0
    /\ cycle.last # EmptyMap
    /\ \E w \in DOMAIN component_config :
          /\ ev.key = cache_key(component_name, w)
          /\ component_config[w].kind = "api"
          /\ component_config[w].api.some
          /\ resolve_url(component_config[w].api.v, env).ok

(***************************************************************************)
(* StatuslineGenerator::generate and update_config over time.  A generate  *)
(* call is one step (the generator is not invoked concurrently with        *)
(* itself); what it renders is given by its outcome, the render call       *)
(* itself being the subject of Spec.                                       *)
(***************************************************************************)

\* the delays between two operations, in milliseconds
Delays == {100, 200}

\* the last instant of the clock
MaxInstant == 600

\* project ids resolved from the input of generate
Projects == {"p", "q"}

\* what the rendering of a generate call gives: an error of render_components
\* or of the theme renderer, or the joined lines
Renderings == { None, Some(<<"a">>), Some(<<"a", "\n", "b">>) }

GeneratorOptionSets == [update_throttling : BOOLEAN, disable_cache : BOOLEAN]

InitGen ==
    /\ config = CHOOSE c \in Configs : c.multiline.v.enabled /\ c.multiline.v.max_rows = 2
    /\ widget_cache = EmptyMap
    /\ grid = EmptyMap
    /\ env = CHOOSE e \in ProbeEnvs : DOMAIN e = {}
    /\ files = [c \in Components |-> Absent]
    /\ pc = "idle"
    /\ multiline_config = [enabled |-> TRUE, max_rows |-> 0, rows |-> EmptyMap]
    /\ terminal = CHOOSE t \in Terminals : TRUE
    /\ comp_idx = 0
    /\ component_config = EmptyMap
    /\ todo = {}
    /\ current = ""
    /\ result = None
    /\ renders = 0
    /\ changes = 0
    /\ cycle = NewCycle
    /\ since_update = NoUpdate
    /\ ev = Plain("new")
    /\ generator \in {StatuslineGenerator_new(options) : options \in GeneratorOptionSets}
    /\ probe = [op |-> "none", now |-> MillisThreshold, instant |-> 0]

\* time passes between two operations on the generator
Tick(d) ==
    /\ probe.instant + d <= MaxInstant
    /\ probe' = [probe EXCEPT !.instant = @ + d]
    /\ UNCHANGED engine_vars

\* the observation of a generate call: its instant, the generator before it,
\* whether it directly follows update_config, how it ended and what it
\* returned
Generated(how, returned) ==
    [op |-> "generate", now |-> probe.now, instant |-> probe.instant,
     at |-> probe.instant, before |-> generator, after_update |-> probe.op = "update_config",
     how |-> how, returned |-> returned]

\* generate: ensure_storage_ready (an Err is returned at once), the session
\* snapshot (errors are only printed), should_update, the stored result or
\* the rendering, and the store of the new result
Generate(project_id, storage_ok, rendering) ==
    /\ UNCHANGED <<config, widget_cache, grid, env, files, pc, multiline_config,
                   terminal, comp_idx, component_config, todo, current, result,
                   renders, changes, cycle, since_update, ev>>
    /\ IF /\ ~generator.storage_initialized \/ generator.active_project_id # Some(project_id)
          /\ ~storage_ok
       THEN /\ generator' = generator
            /\ probe' = Generated("storage_error", None)
       ELSE \E ready \in {[generator EXCEPT !.storage_initialized = TRUE,
                                            !.active_project_id = Some(project_id)]} :
            \E throttle \in {should_update(ready, probe.instant)} :
            \E checked \in {[ready EXCEPT !.last_update = throttle.last_update]} :
                IF ~throttle.update /\ checked.last_result.some
                THEN /\ generator' = checked
                     /\ probe' = Generated("stored", checked.last_result)
                ELSE IF ~rendering.some
                THEN /\ generator' = checked
                     /\ probe' = Generated("render_error", None)
                ELSE /\ generator' = IF checked.disable_cache THEN checked
                                     ELSE [checked EXCEPT !.last_result = rendering]
                     /\ probe' = Generated("rendered", rendering)

\* StatuslineGenerator::update_config: the new configuration goes to the
\* engine as well (refresh_multiline_renderer), the stored result is dropped
GeneratorUpdateConfig(cfg) ==
    /\ config' = cfg
    /\ widget_cache' = EmptyMap
    /\ generator' = [generator EXCEPT !.last_result = None]
    /\ probe' = [op |-> "update_config", now |-> probe.now, instant |-> probe.instant]
    /\ UNCHANGED <<grid, env, files, pc, multiline_config, terminal, comp_idx,
                   component_config, todo, current, result, renders, changes, cycle,
                   since_update, ev>>

NextGen ==
    \/ \E d \in Delays : Tick(d)
    \/ \E project_id \in Projects : \E storage_ok \in BOOLEAN :
          \E rendering \in Renderings : Generate(project_id, storage_ok, rendering)
    \/ \E cfg \in Configs : GeneratorUpdateConfig(cfg)

GenSpec == InitGen /\ [][NextGen]_vars

\* caching is not disabled, the interval is not zero, an update is recorded
\* less than the interval ago, and a result is stored
Throttled(g, instant) ==
    /\ ~g.disable_cache
    /\ g.update_interval # 0
    /\ g.last_update.some
    /\ instant - g.last_update.v < g.update_interval
    /\ g.last_result.some

\* the call rendered (with or without success)
RenderedAnew == probe.how \in {"rendered", "render_error"}

\* the decision of a generate call that got past the storage set-up
Decision ==
    /\ (probe.how = "stored") = Throttled(probe.before, probe.at)
    /\ probe.how = "stored" => probe.returned = probe.before.last_result
    /\ probe.how # "stored" => RenderedAnew
    /\ probe.how = "rendered" => probe.returned.some
    /\ probe.after_update => RenderedAnew

\* C29 as stated: a generate call returns the stored result without
\* rendering exactly when caching is not disabled, the interval is not zero,
\* less than the interval has passed since the recorded update and a result
\* is stored; in every other case it renders; the first call after
\* update_config renders.
C29_AsStated == probe.op = "generate" => Decision

\* C29: a generate call whose storage set-up succeeds returns the stored
\* result without rendering exactly when caching is not disabled, the
\* interval is not zero, less than the interval has passed since the recorded
\* update and a result is stored, and renders in every other case, the first
\* call after update_config included; a call whose storage set-up fails
\* returns the error, neither the stored result nor a rendering, and leaves
\* the generator as it was.
C29_ThrottleDecision ==
    probe.op = "generate"
        => IF probe.how = "storage_error"
           THEN generator = probe.before /\ probe.returned = None
           ELSE Decision

\* a generate call directly after update_config, inside the interval of an
\* earlier rendering, renders
C29_Witness ==
    /\ probe.op = "generate"
    /\ probe.after_update
    /\ probe.how = "rendered"
    /\ ~probe.before.disable_cache
    /\ probe.before.update_interval # 0
    /\ probe.before.last_update.some
    /\ probe.at - probe.before.last_update.v < probe.before.update_interval
    /\ generator.last_result = probe.returned

(***************************************************************************)
(* The iteration order of a component's widgets                            *)
(***************************************************************************)

\* the widgets of the call that get to their resolution: they pass the gate
\* and their row is in 1..max_rows
Participating ==
    {w \in DOMAIN probe.widgets :
        /\ should_render_widget(probe.widgets[w])
        /\ check_detection(probe.widgets[w], probe.env)
        /\ probe.widgets[w].row >= 1
        /\ probe.widgets[w].row <= config.multiline.v.max_rows}

\* no two participating widgets target the same cell
DistinctCells ==
    \A v, w \in Participating :
        v # w => <<probe.widgets[v].row, probe.widgets[v].col>>
                 # <<probe.widgets[w].row, probe.widgets[w].col>>

\* every order gives the same lines and the same cache
OrderBlind == \A o1, o2 \in DOMAIN probe.outs : probe.outs[o1] = probe.outs[o2]

\* C30: with the configuration, the environment, the cache before the call
\* and the outcome of every request fixed, if no two participating widgets
\* target the same (row, column), the rendered lines and the widget cache
\* after the iteration are the same for every order of the widgets.
C30_OrderIndependent == (probe.op = "order" /\ DistinctCells) => OrderBlind

\* three participating widgets on three cells, among them an API widget
\* whose request fails and whose cached text is placed: one result
C30_Witness ==
    /\ probe.op = "order"
    /\ DistinctCells
    /\ Participating = OrderNames
    /\ \E w \in OrderNames :
          /\ probe.widgets[w].kind = "api"
          /\ probe.responses[w] = None
          /\ probe.cache # EmptyMap
    /\ \E o \in DOMAIN probe.outs :
          /\ Len(probe.outs[o].lines) = 2
          /\ \E w \in OrderNames : probe.outs[o].cache[cache_key("usage", w)] # <<"o">>

\* the steps of the engine are iterations of render_component_widgets: a
\* step of Spec that finishes widget w leaves the grid and the cache that
\* iterate_widget gives for w under one of the responses
EngineIterates ==
    [][\A w \in todo :
          (pc \in {"widgets", "await"} /\ todo' = todo \ {w})
             => \E response \in Responses :
                   [rows |-> grid', cache |-> widget_cache']
                   = iterate_widget([rows |-> grid, cache |-> widget_cache], w,
                                    [component |-> component_name,
                                     widgets |-> component_config,
                                     responses |-> [x \in DOMAIN component_config |->
                                                       response],
                                     multiline_config |-> multiline_config,
                                     terminal |-> terminal, config |-> config,
                                     env |-> env])]_vars
=============================================================================
